---- MODULE Spec2Model ----
(***************************************************************************)
(* A model of the attention and event detection engine of                  *)
(* src/src/focus_detection/focus_analyzer.py: FocusAnalyzer.analyze_frame  *)
(* with its IoU track association, EMA pose smoothing, attention           *)
(* classifier, blink and yawn state machines and prune sweep; of the       *)
(* frame records of src/src/focus_detection/pipeline.py and                *)
(* src/src/scoring/data_structures.py; and of the scoring queries of       *)
(* src/src/scoring/productivity_score.py.                                  *)
(*                                                                         *)
(* Time is counted in ticks of 10 ms (0.03 s = 3 ticks, 2.0 s = 200).      *)
(* Angles are held in millidegrees (15 degrees = 15000).                   *)
(* An IoU is the exact fraction <<inter, union>>; for integer boxes of the *)
(* sizes used here two such fractions compare as the floats do.            *)
(* Python's None is NoneTs for a timestamp, NoBox for a bbox and "None"    *)
(* for an attention string.                                                *)
(***************************************************************************)
EXTENDS Integers, Sequences, FiniteSets, TLC

VARIABLES
    clock,          \* the last value time.time() returned
    frame_counter,  \* FocusAnalyzer._frame_counter
    states,         \* FocusAnalyzer.states: track id -> FaceState
    next_state_id,  \* FocusAnalyzer._next_state_id
    out,            \* the dict the last analyze_frame(return_all=True) returned
    updates,        \* observation: one record per detection the last call processed
    track_log,      \* observation: per live track, when its last blink / yawn was counted
    iou_a,          \* first box of the pure _iou check
    iou_b,          \* second box of the pure _iou check
    iou_out,        \* _iou(iou_a, iou_b), once evaluated
    iou_rev,        \* _iou(iou_b, iou_a), once evaluated
    detections,     \* observation: what detector.detect returned to the last call
    record,         \* the dict the last FocusPipeline._prepare_scoring_output returned
    frames_history, \* ProductivityScoring.frames_history
    engine,         \* ProductivityScoringEngine: the renormalised weights
    answer          \* observation: the last scoring query, the history it ran on, its result

vars == <<clock, frame_counter, states, next_state_id, out, updates, track_log,
          iou_a, iou_b, iou_out, iou_rev,
          detections, record, frames_history, engine, answer>>

scoring_vars == <<frames_history, engine, answer>>

session_vars == <<detections, record, frames_history, engine, answer>>

analyzer_vars == <<clock, frame_counter, states, next_state_id, out, updates, track_log>>

iou_vars == <<iou_a, iou_b, iou_out, iou_rev>>

-----------------------------------------------------------------------------
(* Bounds of the model *)

\* Spec calls analyze_frame at most MaxFrames times
MaxFrames == 3

\* SpecBlink, SpecYawn and SpecRefractory call it at most MaxEventFrames times
MaxEventFrames == 4

\* SpecIoU draws box coordinates from 0..MaxCoord
MaxCoord == 3

\* SpecFocus scores histories of at most MaxFocusFrames frames
MaxFocusFrames == 10

\* frames a scored session holds at most
MaxScoreFrames == 3

\* the longest distance between two eye landmarks, in tenths of a pixel
MaxEyeSpan == 50

\* faces in a list handed to the two selections of the primary face
MaxFaces == 3

\* the longest run of like frames in a history handed to the pattern analysis
MaxRun == 31

-----------------------------------------------------------------------------
(* Program constants, in ticks of 10 ms and in degrees *)

blink_min_dur == 3

blink_max_dur == 70

blink_refractory == 20

yawn_min_dur == 20

yawn_max_dur == 300

yawn_refractory == 50

yaw_threshold == 15

pitch_threshold == 15

\* the prune sweep's 2.0 s
StaleAfter == 200

\* time.time() at construction: any wall-clock reading is far above every window
Epoch == 1000

NoneTs == -1

NoBox == <<>>

\* an empty dict
EmptyMap == [k \in {} |-> k]

\* Python truthiness of an Optional[float]: None and 0.0 are falsy
Truthy(ts) == ts # NoneTs /\ ts # 0

Abs(x) == IF x < 0 THEN -x ELSE x

Max2(x, y) == IF x >= y THEN x ELSE y

Min2(x, y) == IF x <= y THEN x ELSE y

MilliDeg(d) == d * 1000

-----------------------------------------------------------------------------
(* _iou: intersection over union of two boxes (x1, y1, x2, y2) *)

\* the float 0.0
IoUZero == <<0, 1>>

\* variant: the union taken as the sum of the two areas
_iouSumUnion(a, b) ==
    LET iw == Max2(0, Min2(a[3], b[3]) - Max2(a[1], b[1]))
        ih == Max2(0, Min2(a[4], b[4]) - Max2(a[2], b[2]))
        area_a == Max2(0, a[3] - a[1]) * Max2(0, a[4] - a[2])
        area_b == Max2(0, b[3] - b[1]) * Max2(0, b[4] - b[2])
    IN  IF area_a + area_b <= 0 THEN IoUZero ELSE <<iw * ih, area_a + area_b>>

_iou(a, b) ==
    LET ix1 == Max2(a[1], b[1])
        iy1 == Max2(a[2], b[2])
        ix2 == Min2(a[3], b[3])
        iy2 == Min2(a[4], b[4])
        iw == Max2(0, ix2 - ix1)
        ih == Max2(0, iy2 - iy1)
        inter == iw * ih
        area_a == Max2(0, a[3] - a[1]) * Max2(0, a[4] - a[2])
        area_b == Max2(0, b[3] - b[1]) * Max2(0, b[4] - b[2])
        union == area_a + area_b - inter
    IN  IF union <= 0 THEN IoUZero ELSE <<inter, union>>

\* p > q on fractions with positive denominators
IoUGreater(p, q) == p[1] * q[2] > q[1] * p[2]

\* variant: i >= 0.35
AboveMatchThresholdInclusive(i) == i[1] * 20 >= 7 * i[2]

\* i > 0.35, the acceptance test of the association
AboveMatchThreshold(i) == i[1] * 20 > 7 * i[2]

\* blink_consec_frames as __init__ stores it; the blink machine does not read it
blink_consec_frames == 1

-----------------------------------------------------------------------------
(* FaceState *)

\* None in last_landmarks and in last_pose
NoLandmarks == [none |-> "landmarks"]

NoPose == <<>>

\* FaceState(bbox=bbox) with id and last_seen set as analyze_frame does
NewFaceState(bbox, sid, timestamp) ==
    [ bbox |-> bbox,
      prev_eyes_closed |-> FALSE,
      prev_mouth_open |-> FALSE,
      pending_blink |-> FALSE,
      pending_yawn |-> FALSE,
      last_seen |-> timestamp,
      ema_yaw |-> 0,
      ema_pitch |-> 0,
      ema_roll |-> 0,
      blink_count |-> 0,
      closed_frames |-> 0,
      blink_start_ts |-> NoneTs,
      blink_started_attention |-> "None",
      last_blink_ts |-> 0,
      yawn_start_ts |-> NoneTs,
      yawn_started_attention |-> "None",
      last_yawn_ts |-> 0,
      yawn_count |-> 0,
      mouth_open_frames |-> 0,
      last_landmarks |-> NoLandmarks,
      last_pose |-> NoPose,
      id |-> sid ]

\* the keys of a dict in iteration order: ids are handed out in increasing
\* order and never reused, so insertion order is increasing id
RECURSIVE KeysInOrder(_)
KeysInOrder(S) ==
    IF S = {} THEN <<>>
    ELSE LET m == CHOOSE x \in S : \A y \in S : x <= y
         IN  <<m>> \o KeysInOrder(S \ {m})

NoneId == -1

\* i > best_iou: the running (best_id, best_iou) after a track of IoU i
Pick(sid, i, best) == IF IoUGreater(i, best[2]) THEN <<sid, i>> ELSE best

\* one pass of the loop over self.states.items()
Better(sts, sid, bbox, best) ==
    IF sts[sid].last_seen = NoneTs THEN best
    ELSE Pick(sid, _iou(bbox, sts[sid].bbox), best)

\* the whole loop: the first track of strictly greatest IoU
RECURSIVE BestMatch(_, _, _, _)
BestMatch(sts, keys, bbox, best) ==
    IF keys = <<>> THEN best
    ELSE BestMatch(sts, Tail(keys), bbox, Better(sts, Head(keys), bbox, best))

\* the accepted match: the track takes the detection's bbox and the frame's timestamp
MatchTrack(sts, next_id, bbox, timestamp, best_id) ==
    [ sid |-> best_id, isNew |-> FALSE, next_id |-> next_id,
      sts |-> [k \in DOMAIN sts |->
                 IF k = best_id
                 THEN [sts[k] EXCEPT !.bbox = bbox, !.last_seen = timestamp]
                 ELSE sts[k]] ]

\* variant: the counter of ids is not advanced
CreateTrackSameId(sts, next_id, bbox, timestamp) ==
    [ sid |-> next_id, isNew |-> TRUE, next_id |-> next_id,
      sts |-> [k \in DOMAIN sts \cup {next_id} |->
                 IF k = next_id THEN NewFaceState(bbox, next_id, timestamp)
                 ELSE sts[k]] ]

\* no accepted match: a new persistent state under the next id
CreateTrack(sts, next_id, bbox, timestamp) ==
    [ sid |-> next_id, isNew |-> TRUE, next_id |-> next_id + 1,
      sts |-> [k \in DOMAIN sts \cup {next_id} |->
                 IF k = next_id THEN NewFaceState(bbox, next_id, timestamp)
                 ELSE sts[k]] ]

AcceptMatch(best) == best[1] # NoneId /\ AboveMatchThreshold(best[2])

Assign(sts, next_id, bbox, timestamp, best) ==
    IF AcceptMatch(best)
    THEN MatchTrack(sts, next_id, bbox, timestamp, best[1])
    ELSE CreateTrack(sts, next_id, bbox, timestamp)

\* the association's outcome: [sid, isNew, sts, next_id]
Associate(sts, next_id, bbox, timestamp) ==
    Assign(sts, next_id, bbox, timestamp,
           BestMatch(sts, KeysInOrder(DOMAIN sts), bbox, <<NoneId, IoUZero>>))

-----------------------------------------------------------------------------
(* Pose smoothing and the attention classifier *)

\* a * raw + (1 - a) * ema with ema_alpha = 0.4, in millidegrees
EmaBlend(raw, ema) == (4 * MilliDeg(raw) + 6 * ema) \div 10

\* variant: a track without a stored EMA blends with the zeros it holds
SmoothPoseAlwaysBlend(s, pose) ==
    [s EXCEPT !.ema_yaw = EmaBlend(pose[1], s.ema_yaw),
              !.ema_pitch = EmaBlend(pose[2], s.ema_pitch),
              !.ema_roll = EmaBlend(pose[3], s.ema_roll)]

SmoothPose(s, pose) ==
    IF s.ema_yaw = 0 /\ s.ema_pitch = 0 /\ s.ema_roll = 0
    THEN [s EXCEPT !.ema_yaw = MilliDeg(pose[1]),
                   !.ema_pitch = MilliDeg(pose[2]),
                   !.ema_roll = MilliDeg(pose[3])]
    ELSE [s EXCEPT !.ema_yaw = EmaBlend(pose[1], s.ema_yaw),
                   !.ema_pitch = EmaBlend(pose[2], s.ema_pitch),
                   !.ema_roll = EmaBlend(pose[3], s.ema_roll)]

\* variant: the thresholds included (<=)
LookingForwardInclusive(s) ==
    /\ Abs(s.ema_yaw) <= MilliDeg(yaw_threshold)
    /\ Abs(s.ema_pitch) <= MilliDeg(pitch_threshold)

LookingForward(s) ==
    /\ Abs(s.ema_yaw) < MilliDeg(yaw_threshold)
    /\ Abs(s.ema_pitch) < MilliDeg(pitch_threshold)

\* variant: the eyes are not looked at
AttentionIgnoringEyes(s, left_open, right_open) ==
    IF ~LookingForward(s) THEN "looking_away" ELSE "attentive"

Attention(s, left_open, right_open) ==
    LET both_closed == (~left_open) /\ (~right_open)
    IN  IF ~LookingForward(s) THEN "looking_away"
        ELSE IF both_closed THEN "eyes_closed"
        ELSE "attentive"

-----------------------------------------------------------------------------
(* The blink state machine *)

\* variant: the refractory window closed at its end (>=)
BlinkCountableRefractoryInclusive(s, attention, now_ts) ==
    /\ Truthy(s.blink_start_ts)
    /\ blink_min_dur <= now_ts - s.blink_start_ts
    /\ now_ts - s.blink_start_ts <= blink_max_dur
    /\ (s.blink_started_attention = "attentive" \/ attention = "attentive")
    /\ (now_ts - s.last_blink_ts) >= blink_refractory

\* variant: no refractory test
BlinkCountableNoRefractory(s, attention, now_ts) ==
    /\ Truthy(s.blink_start_ts)
    /\ blink_min_dur <= now_ts - s.blink_start_ts
    /\ now_ts - s.blink_start_ts <= blink_max_dur
    /\ (s.blink_started_attention = "attentive" \/ attention = "attentive")

\* variant: both endpoints must be attentive
BlinkCountableBothEnds(s, attention, now_ts) ==
    /\ Truthy(s.blink_start_ts)
    /\ blink_min_dur <= now_ts - s.blink_start_ts
    /\ now_ts - s.blink_start_ts <= blink_max_dur
    /\ (s.blink_started_attention = "attentive" /\ attention = "attentive")
    /\ (now_ts - s.last_blink_ts) > blink_refractory

\* variant: no endpoint has to be attentive
BlinkCountableAnyAttention(s, attention, now_ts) ==
    /\ Truthy(s.blink_start_ts)
    /\ blink_min_dur <= now_ts - s.blink_start_ts
    /\ now_ts - s.blink_start_ts <= blink_max_dur
    /\ (now_ts - s.last_blink_ts) > blink_refractory

\* the test that a reopening is a blink: duration in bounds, an attentive
\* endpoint, and outside the refractory window
BlinkCountable(s, attention, now_ts) ==
    /\ Truthy(s.blink_start_ts)
    /\ blink_min_dur <= now_ts - s.blink_start_ts
    /\ now_ts - s.blink_start_ts <= blink_max_dur
    /\ (s.blink_started_attention = "attentive" \/ attention = "attentive")
    /\ (now_ts - s.last_blink_ts) > blink_refractory

\* eyes just closed
BlinkStart(s, attention, now_ts) ==
    [s EXCEPT !.closed_frames = 1,
              !.blink_start_ts = now_ts,
              !.blink_started_attention = attention,
              !.pending_blink = (attention = "attentive")]

\* eyes still closed
BlinkHold(s, attention, now_ts) ==
    [s EXCEPT !.closed_frames = s.closed_frames + 1,
              !.pending_blink =
                  IF attention # "attentive" THEN FALSE
                  ELSE IF Truthy(s.blink_start_ts)
                          /\ (now_ts - s.blink_start_ts) > blink_max_dur
                       THEN FALSE
                  ELSE s.pending_blink]

BlinkCount(s, attention, now_ts) ==
    IF BlinkCountable(s, attention, now_ts)
    THEN [s EXCEPT !.blink_count = s.blink_count + 1, !.last_blink_ts = now_ts]
    ELSE s

BlinkReset(s) ==
    [s EXCEPT !.closed_frames = 0,
              !.pending_blink = FALSE,
              !.blink_start_ts = NoneTs,
              !.blink_started_attention = "None"]

\* eyes just opened: evaluate, then reset
BlinkEnd(s, attention, now_ts) == BlinkReset(BlinkCount(s, attention, now_ts))

\* eyes still open
BlinkIdle(s, attention) ==
    [s EXCEPT !.closed_frames = 0,
              !.pending_blink = IF attention # "attentive" THEN FALSE ELSE s.pending_blink]

BlinkBranch(s, eyes_closed, attention, now_ts) ==
    IF (~s.prev_eyes_closed) /\ eyes_closed THEN BlinkStart(s, attention, now_ts)
    ELSE IF s.prev_eyes_closed /\ eyes_closed THEN BlinkHold(s, attention, now_ts)
    ELSE IF s.prev_eyes_closed /\ ~eyes_closed THEN BlinkEnd(s, attention, now_ts)
    ELSE BlinkIdle(s, attention)

BlinkStep(s, eyes_closed, attention, now_ts) ==
    [BlinkBranch(s, eyes_closed, attention, now_ts) EXCEPT !.prev_eyes_closed = eyes_closed]

-----------------------------------------------------------------------------
(* The yawn state machine *)

\* variant: the minimum duration excluded (<)
YawnCountableMinExclusive(s, attention, now_ts) ==
    /\ Truthy(s.yawn_start_ts)
    /\ yawn_min_dur < now_ts - s.yawn_start_ts
    /\ now_ts - s.yawn_start_ts <= yawn_max_dur
    /\ (s.yawn_started_attention = "attentive" \/ attention = "attentive")
    /\ (now_ts - s.last_yawn_ts) > yawn_refractory

\* variant: no maximum duration
YawnCountableNoMax(s, attention, now_ts) ==
    /\ Truthy(s.yawn_start_ts)
    /\ yawn_min_dur <= now_ts - s.yawn_start_ts
    /\ (s.yawn_started_attention = "attentive" \/ attention = "attentive")
    /\ (now_ts - s.last_yawn_ts) > yawn_refractory

\* variant: no endpoint has to be attentive
YawnCountableAnyAttention(s, attention, now_ts) ==
    /\ Truthy(s.yawn_start_ts)
    /\ yawn_min_dur <= now_ts - s.yawn_start_ts
    /\ now_ts - s.yawn_start_ts <= yawn_max_dur
    /\ (now_ts - s.last_yawn_ts) > yawn_refractory

YawnCountable(s, attention, now_ts) ==
    /\ Truthy(s.yawn_start_ts)
    /\ yawn_min_dur <= now_ts - s.yawn_start_ts
    /\ now_ts - s.yawn_start_ts <= yawn_max_dur
    /\ (s.yawn_started_attention = "attentive" \/ attention = "attentive")
    /\ (now_ts - s.last_yawn_ts) > yawn_refractory

\* mouth just opened
YawnStart(s, attention, now_ts) ==
    [s EXCEPT !.mouth_open_frames = 1,
              !.yawn_start_ts = now_ts,
              !.yawn_started_attention = attention,
              !.pending_yawn = (attention = "attentive")]

\* mouth remains open
\* variant: an opening longer than the maximum keeps its pending flag
YawnHoldKeepsPending(s, attention, now_ts) ==
    [s EXCEPT !.mouth_open_frames = s.mouth_open_frames + 1,
              !.pending_yawn = IF attention # "attentive" THEN FALSE ELSE s.pending_yawn]

YawnHold(s, attention, now_ts) ==
    [s EXCEPT !.mouth_open_frames = s.mouth_open_frames + 1,
              !.pending_yawn =
                  IF attention # "attentive" THEN FALSE
                  ELSE IF Truthy(s.yawn_start_ts)
                          /\ (now_ts - s.yawn_start_ts) > yawn_max_dur
                       THEN FALSE
                  ELSE s.pending_yawn]

YawnCount(s, attention, now_ts) ==
    IF YawnCountable(s, attention, now_ts)
    THEN [s EXCEPT !.yawn_count = s.yawn_count + 1, !.last_yawn_ts = now_ts]
    ELSE s

\* variant: the reset also clears the blink counter
YawnResetClearsBlinks(s) ==
    [s EXCEPT !.mouth_open_frames = 0,
              !.pending_yawn = FALSE,
              !.yawn_start_ts = NoneTs,
              !.yawn_started_attention = "None",
              !.blink_count = 0]

\* variant: the start of the opening survives the reset
YawnResetKeepsStart(s) ==
    [s EXCEPT !.mouth_open_frames = 0,
              !.pending_yawn = FALSE]

YawnReset(s) ==
    [s EXCEPT !.mouth_open_frames = 0,
              !.pending_yawn = FALSE,
              !.yawn_start_ts = NoneTs,
              !.yawn_started_attention = "None"]

\* mouth just closed: evaluate, then reset
YawnEnd(s, attention, now_ts) == YawnReset(YawnCount(s, attention, now_ts))

\* mouth stays closed
YawnIdle(s, attention) ==
    [s EXCEPT !.mouth_open_frames = 0,
              !.pending_yawn = IF attention # "attentive" THEN FALSE ELSE s.pending_yawn]

YawnBranch(s, mouth_open, attention, now_ts) ==
    IF (~s.prev_mouth_open) /\ mouth_open THEN YawnStart(s, attention, now_ts)
    ELSE IF s.prev_mouth_open /\ mouth_open THEN YawnHold(s, attention, now_ts)
    ELSE IF s.prev_mouth_open /\ ~mouth_open THEN YawnEnd(s, attention, now_ts)
    ELSE YawnIdle(s, attention)

YawnStep(s, mouth_open, attention, now_ts) ==
    [YawnBranch(s, mouth_open, attention, now_ts) EXCEPT !.prev_mouth_open = mouth_open]

-----------------------------------------------------------------------------
(* analyze_frame *)

EyesClosed(det) == (~det.left_open) /\ (~det.right_open)

\* face_result, with the track id the per-frame CSV row carries
\* the EAR the eye analyzer reports with an open and with a closed eye, in
\* hundredths; open means ear >= ear_threshold (0.20)
OpenEar == 30

ClosedEar == 5

EarOf(open) == IF open THEN OpenEar ELSE ClosedEar

FaceResult(det, s, attention, frame_id, timestamp) ==
    [ bbox |-> det.bbox,
      raw_pose |-> det.pose,
      yaw |-> s.ema_yaw,
      pitch |-> s.ema_pitch,
      roll |-> s.ema_roll,
      left_ear |-> EarOf(det.left_open),
      right_ear |-> EarOf(det.right_open),
      eyes_open_left |-> det.left_open,
      eyes_open_right |-> det.right_open,
      mouth_open |-> det.mouth_open,
      yawn_count |-> s.yawn_count,
      blink_count |-> s.blink_count,
      attention |-> attention,
      frame_id |-> frame_id,
      timestamp |-> timestamp ]

\* the raw pose is within the yaw and pitch thresholds
RawForward(pose) == Abs(pose[1]) < yaw_threshold /\ Abs(pose[2]) < pitch_threshold

\* what is noted of a track that has not been updated yet
FreshLog ==
    [ blink_frame |-> NoneTs, blink_now |-> NoneTs,
      yawn_frame |-> NoneTs, yawn_now |-> NoneTs,
      always_forward |-> TRUE ]

\* a track's log after one more update: the frame timestamp and the clock
\* reading of its last counted blink and yawn, and whether every raw pose
\* it was updated with was forward
NoteUpdate(prev, pre, post, det, timestamp, now_ts) ==
    [ blink_frame |-> IF post.blink_count # pre.blink_count THEN timestamp ELSE prev.blink_frame,
      blink_now |-> IF post.blink_count # pre.blink_count THEN now_ts ELSE prev.blink_now,
      yawn_frame |-> IF post.yawn_count # pre.yawn_count THEN timestamp ELSE prev.yawn_frame,
      yawn_now |-> IF post.yawn_count # pre.yawn_count THEN now_ts ELSE prev.yawn_now,
      always_forward |-> prev.always_forward /\ RawForward(det.pose) ]

\* variant: a failed write raises out of analyze_frame
WriteEscapesOnFailure(sinks_ok) == ~sinks_ok

\* every write to the verbose log, the concise log and the per-frame CSV
\* stands alone in a try whose except clause passes: nothing is raised past
\* it whether the write succeeds or not
WriteEscapes(sinks_ok) == FALSE

\* the loop left by an exception after the association and before the face
\* entry is appended
Escaped(acc, a, now_ts) ==
    [ sts |-> a.sts,
      next_id |-> a.next_id,
      clock |-> now_ts,
      log |-> [k \in DOMAIN a.sts |-> IF k \in DOMAIN acc.log THEN acc.log[k] ELSE FreshLog],
      faces |-> acc.faces,
      ups |-> acc.ups,
      raised |-> TRUE ]

\* the end of the loop body: the face entry is appended; acc carries the
\* analyzer's state through the loop, a is the association's outcome and
\* post the track after both state machines
Emit(acc, det, timestamp, frame_id, a, attention, now_ts, post) ==
    [ raised |-> FALSE,
      sts |-> [k \in DOMAIN a.sts |-> IF k = a.sid THEN post ELSE a.sts[k]],
      next_id |-> a.next_id,
      clock |-> now_ts,
      log |-> [k \in DOMAIN a.sts |->
                 IF k = a.sid
                 THEN NoteUpdate(IF a.isNew THEN FreshLog ELSE acc.log[k],
                                 IF a.isNew THEN a.sts[k] ELSE acc.sts[k],
                                 post, det, timestamp, now_ts)
                 ELSE acc.log[k]],
      faces |-> Append(acc.faces, FaceResult(det, post, attention, frame_id, timestamp)),
      ups |-> Append(acc.ups,
                [ det |-> det, sid |-> a.sid, isNew |-> a.isNew,
                  before |-> acc.sts, next_id_before |-> acc.next_id,
                  after |-> [k \in DOMAIN a.sts |-> IF k = a.sid THEN post ELSE a.sts[k]],
                  pre |-> IF a.isNew THEN a.sts[a.sid] ELSE acc.sts[a.sid],
                  post |-> post,
                  attention |-> attention, now_ts |-> now_ts,
                  timestamp |-> timestamp,
                  prev_log |-> IF a.isNew THEN FreshLog ELSE acc.log[a.sid] ]) ]

\* the blink machine, then the yawn machine, on the same clock reading
RunMachines(acc, det, timestamp, frame_id, a, smoothed, attention, now_ts) ==
    IF WriteEscapes(det.sinks_ok) THEN Escaped(acc, a, now_ts)
    ELSE Emit(acc, det, timestamp, frame_id, a, attention, now_ts,
              YawnStep(BlinkStep(smoothed, EyesClosed(det), attention, now_ts),
                       det.mouth_open, attention, now_ts))

\* attention inference, then now_ts = time.time(), det.lag ticks after the
\* previous reading of the clock
Classify(acc, det, timestamp, frame_id, a, smoothed) ==
    RunMachines(acc, det, timestamp, frame_id, a, smoothed,
                Attention(smoothed, det.left_open, det.right_open),
                acc.clock + det.lag)

\* what the eye and mouth analyses find in a frame's landmarks
LandmarksOf(det) ==
    [left_open |-> det.left_open, right_open |-> det.right_open, mouth_open |-> det.mouth_open]

\* variant: the zero pose whatever the cache holds
FallbackPoseZero(s) == <<0, 0, 0>>

\* state.last_pose or {"yaw": 0.0, "pitch": 0.0, "roll": 0.0}
FallbackPose(s) == IF s.last_pose # NoPose THEN s.last_pose ELSE <<0, 0, 0>>

\* the landmarks the rest of the loop body works with
LandmarksNow(s, det) ==
    IF det.estimator = "ok" THEN LandmarksOf(det)
    ELSE IF det.estimator = "no_landmarks" THEN NoLandmarks
    ELSE s.last_landmarks

\* raw_pose
RawPoseNow(s, det) ==
    IF det.estimator = "raises" THEN FallbackPose(s) ELSE det.pose

\* the cache is written only when the estimator returned
Cached(s, det) ==
    IF det.estimator = "ok"
    THEN [s EXCEPT !.last_landmarks = LandmarksOf(det), !.last_pose = det.pose]
    ELSE IF det.estimator = "no_landmarks" THEN [s EXCEPT !.last_pose = det.pose]
    ELSE s

\* eye analysis: analyze(None) raises and the fallback reports both eyes
\* open; mouth analysis: no landmarks, mouth_open = False
Analysed(det, landmarks, raw_pose) ==
    [det EXCEPT !.left_open = IF landmarks = NoLandmarks THEN TRUE ELSE landmarks.left_open,
                !.right_open = IF landmarks = NoLandmarks THEN TRUE ELSE landmarks.right_open,
                !.mouth_open = IF landmarks = NoLandmarks THEN FALSE ELSE landmarks.mouth_open,
                !.pose = raw_pose]

\* the detection as the machines see it
Observed(s, det) == Analysed(det, LandmarksNow(s, det), RawPoseNow(s, det))

UpdateTrack(acc, det, timestamp, frame_id, a) ==
    Classify(acc, Observed(a.sts[a.sid], det), timestamp, frame_id, a,
             SmoothPose(Cached(a.sts[a.sid], det), RawPoseNow(a.sts[a.sid], det)))

\* one pass of the loop body over a detection
\* variant: a detection without a bbox raises out of analyze_frame
SkipRaising(acc) == [acc EXCEPT !.raised = TRUE]

\* if bbox is None: continue
SkipDetection(acc) == acc

ProcessDetection(acc, det, timestamp, frame_id) ==
    IF acc.raised THEN acc
    ELSE IF det.bbox = NoBox THEN SkipDetection(acc)
    ELSE UpdateTrack(acc, det, timestamp, frame_id,
                     Associate(acc.sts, acc.next_id, det.bbox, timestamp))

RECURSIVE ProcessAll(_, _, _, _)
ProcessAll(acc, dets, timestamp, frame_id) ==
    IF dets = <<>> THEN acc
    ELSE ProcessAll(ProcessDetection(acc, Head(dets), timestamp, frame_id),
                    Tail(dets), timestamp, frame_id)

\* the ids the prune sweep deletes
Stale(sts, timestamp) ==
    { sid \in DOMAIN sts :
        Truthy(sts[sid].last_seen) /\ (timestamp - sts[sid].last_seen) > StaleAfter }

Prune(sts, timestamp) ==
    [sid \in DOMAIN sts \ Stale(sts, timestamp) |-> sts[sid]]

\* the detector returned nothing: analyze_frame returns before the loop and
\* before the prune sweep
EarlyReturn(timestamp, frame_id) ==
    /\ out' = [ timestamp |-> timestamp, frame_id |-> frame_id,
                face_count |-> 0, faces |-> <<>> ]
    /\ clock' = timestamp
    /\ updates' = <<>>
    /\ UNCHANGED <<states, next_state_id, track_log>>

\* after the loop: the prune sweep and the returned dict
SweepAndReturn(r, kept, timestamp, frame_id, face_count) ==
    /\ states' = kept
    /\ next_state_id' = r.next_id
    /\ clock' = r.clock
    /\ track_log' = [sid \in DOMAIN kept |-> r.log[sid]]
    /\ updates' = r.ups
    /\ out' = [ timestamp |-> timestamp, frame_id |-> frame_id,
                face_count |-> face_count, faces |-> r.faces ]

\* an exception left the loop: no sweep, and the caller gets no dict
Raise(r) ==
    /\ states' = r.sts
    /\ next_state_id' = r.next_id
    /\ clock' = r.clock
    /\ track_log' = r.log
    /\ updates' = r.ups
    /\ UNCHANGED out

LoopAndReturn(r, timestamp, frame_id, face_count) ==
    IF r.raised THEN Raise(r)
    ELSE SweepAndReturn(r, Prune(r.sts, timestamp), timestamp, frame_id, face_count)

\* analyze_frame(frame, return_all=True) on a frame read dt ticks after the
\* last clock reading, for which the detector returns dets
AnalyzeFrame(dt, dets) ==
    /\ frame_counter' = frame_counter + 1
    /\ IF Len(dets) = 0
       THEN EarlyReturn(clock + dt, frame_counter + 1)
       ELSE LoopAndReturn(ProcessAll([ sts |-> states, next_id |-> next_state_id,
                                       clock |-> clock + dt, log |-> track_log,
                                       faces |-> <<>>, ups |-> <<>>, raised |-> FALSE ],
                                     dets, clock + dt, frame_counter + 1),
                          clock + dt, frame_counter + 1, Len(dets))
    /\ UNCHANGED iou_vars

-----------------------------------------------------------------------------
(* Frame records: FocusPipeline._prepare_scoring_output and                *)
(* FrameData.from_pipeline_output                                          *)

\* Python's None where a face, a record or a result is expected
NoFace == [none |-> "face"]

NoRecord == [none |-> "record"]

NoAnswer == [none |-> "answer"]

\* the entry _prepare_scoring_output copies out of a face of analyze_frame
FaceOutput(face) ==
    [ bbox |-> face.bbox,
      yaw |-> face.yaw,
      pitch |-> face.pitch,
      roll |-> face.roll,
      left_ear |-> face.left_ear,
      right_ear |-> face.right_ear,
      eyes_open_left |-> face.eyes_open_left,
      eyes_open_right |-> face.eyes_open_right,
      blink_count |-> face.blink_count,
      attention |-> face.attention,
      mouth_open |-> face.mouth_open,
      yawn_count |-> face.yawn_count ]

BoxArea(bbox) == (bbox[3] - bbox[1]) * (bbox[4] - bbox[2])

\* the scan for the largest bbox area: idx runs over the faces, a strictly
\* larger area replaces the best so far, which starts at the first face with
\* area 0
\* variant: the comparison reversed (<)
RECURSIVE LargestFromReversed(_, _, _, _)
LargestFromReversed(faces, idx, largest_idx, largest_area) ==
    IF idx > Len(faces) THEN largest_idx
    ELSE IF BoxArea(faces[idx].bbox) < largest_area
         THEN LargestFromReversed(faces, idx + 1, idx, BoxArea(faces[idx].bbox))
         ELSE LargestFromReversed(faces, idx + 1, largest_idx, largest_area)

RECURSIVE LargestFrom(_, _, _, _)
LargestFrom(faces, idx, largest_idx, largest_area) ==
    IF idx > Len(faces) THEN largest_idx
    ELSE IF BoxArea(faces[idx].bbox) > largest_area
         THEN LargestFrom(faces, idx + 1, idx, BoxArea(faces[idx].bbox))
         ELSE LargestFrom(faces, idx + 1, largest_idx, largest_area)

PrimaryOf(faces) ==
    IF Len(faces) > 0 THEN faces[LargestFrom(faces, 1, 1, 0)] ELSE NoFace

\* np.argmax(areas): the first index holding the maximum
RECURSIVE ArgMaxFrom(_, _, _)
ArgMaxFrom(areas, idx, best_idx) ==
    IF idx > Len(areas) THEN best_idx
    ELSE IF areas[idx] > areas[best_idx] THEN ArgMaxFrom(areas, idx + 1, idx)
    ELSE ArgMaxFrom(areas, idx + 1, best_idx)

\* _select_primary(detections): None for an empty list (index 0 here)
_select_primary(faces) ==
    IF Len(faces) = 0 THEN 0
    ELSE ArgMaxFrom([i \in DOMAIN faces |-> BoxArea(faces[i].bbox)], 1, 1)

\* analyze_frame(frame, return_all=False)["primary"] for the faces of a frame
PrimaryReturned(faces) ==
    IF _select_primary(faces) = 0 THEN NoFace ELSE faces[_select_primary(faces)]

PrepareWith(analysis_result, faces) ==
    [ timestamp |-> analysis_result.timestamp,
      frame_id |-> analysis_result.frame_id,
      face_count |-> analysis_result.face_count,
      face_detected |-> analysis_result.face_count > 0,
      faces |-> faces,
      primary |-> PrimaryOf(faces) ]

\* _prepare_scoring_output(analysis_result)
PrepareScoringOutput(analysis_result) ==
    PrepareWith(analysis_result,
                [i \in 1..Len(analysis_result.faces) |-> FaceOutput(analysis_result.faces[i])])

\* AttentionState(attention_str), UNKNOWN when the string names no member
\* variant: eyes_closed taken for looking away
ToAttentionStateClosedAway(attention_str) ==
    IF attention_str = "attentive" THEN "ATTENTIVE"
    ELSE IF attention_str \in {"looking_away", "eyes_closed"} THEN "LOOKING_AWAY"
    ELSE "UNKNOWN"

ToAttentionState(attention_str) ==
    IF attention_str = "attentive" THEN "ATTENTIVE"
    ELSE IF attention_str = "looking_away" THEN "LOOKING_AWAY"
    ELSE "UNKNOWN"

\* str.lower() on the attention strings the specifications draw
Lower(s) ==
    IF s = "ATTENTIVE" THEN "attentive"
    ELSE IF s = "Looking_Away" THEN "looking_away"
    ELSE s

\* FaceMetrics(...) from a face dict
ToFaceMetrics(face_dict) ==
    [ bbox |-> face_dict.bbox,
      yaw |-> face_dict.yaw,
      pitch |-> face_dict.pitch,
      roll |-> face_dict.roll,
      left_ear |-> face_dict.left_ear,
      right_ear |-> face_dict.right_ear,
      eyes_open_left |-> face_dict.eyes_open_left,
      eyes_open_right |-> face_dict.eyes_open_right,
      blink_count |-> face_dict.blink_count,
      mouth_open |-> face_dict.mouth_open,
      yawn_count |-> face_dict.yawn_count,
      attention |-> ToAttentionState(Lower(face_dict.attention)) ]

\* FrameData.from_pipeline_output(output)
FromPipelineOutput(output) ==
    [ frame_id |-> output.frame_id,
      timestamp |-> output.timestamp,
      face_count |-> output.face_count,
      face_detected |-> output.face_detected,
      faces |-> [i \in 1..Len(output.faces) |-> ToFaceMetrics(output.faces[i])],
      primary |-> IF output.primary # NoFace THEN ToFaceMetrics(output.primary) ELSE NoFace ]

\* FocusPipeline.process_frame on a frame that was read: analyze_frame, then
\* the scoring record, which the output callback hands to
\* ProductivityScoring.add_frame_from_pipeline
ProcessFrame(dt, dets) ==
    /\ AnalyzeFrame(dt, dets)
    /\ detections' = dets
    /\ record' = PrepareScoringOutput(out')
    /\ frames_history' = Append(frames_history, FromPipelineOutput(record'))
    /\ UNCHANGED <<engine, answer>>

-----------------------------------------------------------------------------
(* Scoring: ProductivityScoringEngine.  A float is held as the exact       *)
(* fraction <<n, d>> in lowest terms with d > 0.                           *)

RECURSIVE GCD(_, _)
GCD(a, b) == IF b = 0 THEN a ELSE GCD(b, a % b)

Q(n, d) ==
    IF n = 0 THEN <<0, 1>>
    ELSE <<(IF d < 0 THEN -n ELSE n) \div GCD(Abs(n), Abs(d)), Abs(d) \div GCD(Abs(n), Abs(d))>>

QAdd(p, q) == Q(p[1] * q[2] + q[1] * p[2], p[2] * q[2])

QSub(p, q) == Q(p[1] * q[2] - q[1] * p[2], p[2] * q[2])

QMul(p, q) == Q(p[1] * q[1], p[2] * q[2])

QDiv(p, q) == Q(p[1] * q[2], p[2] * q[1])

\* p < q: by the whole parts, and by the fractional parts when these are equal
QLess(p, q) ==
    IF p[1] \div p[2] # q[1] \div q[2] THEN p[1] \div p[2] < q[1] \div q[2]
    ELSE (p[1] % p[2]) * q[2] < (q[1] % q[2]) * p[2]

QMax(p, q) == IF QLess(p, q) THEN q ELSE p

QMin(p, q) == IF QLess(q, p) THEN q ELSE p

\* min(max(x, 0), 100)
Clamp100(x) == QMin(QMax(x, Q(0, 1)), Q(100, 1))

\* ProductivityScoringEngine(focus_weight, engagement_weight, stability_weight),
\* the arguments in hundredths
NewEngine(focus_weight, engagement_weight, stability_weight) ==
    [ focus_weight |-> Q(focus_weight, focus_weight + engagement_weight + stability_weight),
      engagement_weight |-> Q(engagement_weight, focus_weight + engagement_weight + stability_weight),
      stability_weight |-> Q(stability_weight, focus_weight + engagement_weight + stability_weight) ]

HasPrimary(f) == f.primary # NoFace

\* [f for f in frames if f.primary]
FaceFrames(frames) == SelectSeq(frames, HasPrimary)

\* sum(1 for f in face_frames if f.primary.attention == state)
CountAttention(face_frames, state) ==
    Cardinality({ i \in DOMAIN face_frames : face_frames[i].primary.attention = state })

\* an empty metrics dict
NoMetrics == [k \in {} |-> k]

FocusOf(face_frames) ==
    [ score |-> Q(CountAttention(face_frames, "ATTENTIVE") * 100, Len(face_frames)),
      metrics |->
        [ attentive_frames |-> CountAttention(face_frames, "ATTENTIVE"),
          looking_away_frames |-> CountAttention(face_frames, "LOOKING_AWAY"),
          unknown_frames |-> Len(face_frames) - CountAttention(face_frames, "ATTENTIVE")
                               - CountAttention(face_frames, "LOOKING_AWAY"),
          focus_percentage |-> Q(CountAttention(face_frames, "ATTENTIVE") * 100, Len(face_frames)),
          total_frames_with_face |-> Len(face_frames) ] ]

\* variant: the share taken over all frames, with or without a face
CalculateFocusScoreOverAll(frames) ==
    IF frames = <<>> THEN [score |-> Q(0, 1), metrics |-> NoMetrics]
    ELSE IF FaceFrames(frames) = <<>>
         THEN [score |-> Q(0, 1), metrics |-> [face_detected |-> FALSE]]
    ELSE [ score |-> Q(CountAttention(FaceFrames(frames), "ATTENTIVE") * 100, Len(frames)),
           metrics |-> FocusOf(FaceFrames(frames)).metrics ]

\* calculate_focus_score(frames): the pair (score, metrics)
CalculateFocusScore(frames) ==
    IF frames = <<>> THEN [score |-> Q(0, 1), metrics |-> NoMetrics]
    ELSE IF FaceFrames(frames) = <<>>
         THEN [score |-> Q(0, 1), metrics |-> [face_detected |-> FALSE]]
    ELSE FocusOf(FaceFrames(frames))

\* sum(xs) of a list of ints
RECURSIVE Sum(_)
Sum(xs) == IF xs = <<>> THEN 0 ELSE Head(xs) + Sum(Tail(xs))

\* sum(xs) of a list of floats
RECURSIVE QSum(_)
QSum(xs) == IF xs = <<>> THEN Q(0, 1) ELSE QAdd(Head(xs), QSum(Tail(xs)))

\* max(xs) of a non-empty list of floats
RECURSIVE QMaxOf(_)
QMaxOf(xs) == IF Len(xs) = 1 THEN xs[1] ELSE QMax(Head(xs), QMaxOf(Tail(xs)))

QAbs(p) == <<Abs(p[1]), p[2]>>

\* an angle of a FaceMetrics, in degrees
Degrees(milli) == Q(milli, 1000)

\* (left_ear + right_ear) / 2 of a face, the ears held in hundredths
AvgEar(face) == Q(face.left_ear + face.right_ear, 200)

\* statistics.mean of the per-frame average EAR
MeanEar(face_frames) ==
    QDiv(QSum([i \in DOMAIN face_frames |-> AvgEar(face_frames[i].primary)]),
         Q(Len(face_frames), 1))

\* min(max((avg_ear - 0.10) / 0.15 * 100, 0), 100)
EarScore(avg_ear) ==
    Clamp100(QMul(QDiv(QSub(avg_ear, Q(10, 100)), Q(15, 100)), Q(100, 1)))

TotalBlinks(face_frames) == Sum([i \in DOMAIN face_frames |-> face_frames[i].primary.blink_count])

TotalYawns(face_frames) == Sum([i \in DOMAIN face_frames |-> face_frames[i].primary.yawn_count])

EyesOpenCount(face_frames) ==
    Cardinality({ i \in DOMAIN face_frames :
                    face_frames[i].primary.eyes_open_left \/ face_frames[i].primary.eyes_open_right })

EngagementMetrics(avg_ear, total_blinks, eyes_open_percentage) ==
    [ average_ear |-> avg_ear,
      total_blinks |-> total_blinks,
      eyes_open_percentage |-> eyes_open_percentage,
      ear_score |-> EarScore(avg_ear),
      blink_score |-> IF total_blinks > 0 THEN Q(100, 1) ELSE Q(50, 1),
      eyes_open_score |-> eyes_open_percentage ]

\* ear_score * 0.4 + blink_score * 0.3 + eyes_open_score * 0.3, clamped
EngagementFrom(metrics) ==
    [ score |-> Clamp100(QAdd(QAdd(QMul(metrics.ear_score, Q(4, 10)),
                                   QMul(metrics.blink_score, Q(3, 10))),
                              QMul(metrics.eyes_open_score, Q(3, 10)))),
      metrics |-> metrics ]

\* calculate_engagement_score(frames)
CalculateEngagementScore(frames) ==
    IF frames = <<>> THEN [score |-> Q(0, 1), metrics |-> NoMetrics]
    ELSE IF FaceFrames(frames) = <<>>
         THEN [score |-> Q(0, 1), metrics |-> [face_detected |-> FALSE]]
    ELSE EngagementFrom(EngagementMetrics(MeanEar(FaceFrames(frames)),
                                          TotalBlinks(FaceFrames(frames)),
                                          Q(EyesOpenCount(FaceFrames(frames)) * 100,
                                            Len(FaceFrames(frames)))))

\* np.var(xs): the mean of the squared deviations from the mean
MeanOf(xs) == QDiv(QSum(xs), Q(Len(xs), 1))

SquaredDeviation(x, mean) == QMul(QSub(x, mean), QSub(x, mean))

VarianceAbout(xs, mean) == MeanOf([i \in DOMAIN xs |-> SquaredDeviation(xs[i], mean)])

Variance(xs) == VarianceAbout(xs, MeanOf(xs))

\* max(abs(xs[i] - xs[i-1]) for i in range(1, len(xs))), of two values or more
MaxDelta(xs) == QMaxOf([i \in 1..(Len(xs) - 1) |-> QAbs(QSub(xs[i + 1], xs[i]))])

\* max(100 - (x * 2), 0)
Penalty(x) == QMax(QSub(Q(100, 1), QMul(x, Q(2, 1))), Q(0, 1))

Yaws(face_frames) == [i \in DOMAIN face_frames |-> Degrees(face_frames[i].primary.yaw)]

Pitches(face_frames) == [i \in DOMAIN face_frames |-> Degrees(face_frames[i].primary.pitch)]

StabilityMetrics(yaw_var, pitch_var, max_yaw_delta, max_pitch_delta) ==
    [ yaw_variance |-> yaw_var,
      pitch_variance |-> pitch_var,
      max_yaw_delta |-> max_yaw_delta,
      max_pitch_delta |-> max_pitch_delta,
      yaw_var_score |-> Penalty(yaw_var),
      pitch_var_score |-> Penalty(pitch_var),
      yaw_delta_score |-> Penalty(max_yaw_delta),
      pitch_delta_score |-> Penalty(max_pitch_delta) ]

\* the four scores at 0.25 each, clamped
StabilityFrom(metrics) ==
    [ score |-> Clamp100(QMul(QAdd(QAdd(metrics.yaw_var_score, metrics.pitch_var_score),
                                   QAdd(metrics.yaw_delta_score, metrics.pitch_delta_score)),
                              Q(25, 100))),
      metrics |-> metrics ]

\* calculate_stability_score(frames)
CalculateStabilityScore(frames) ==
    IF frames = <<>> THEN [score |-> Q(0, 1), metrics |-> NoMetrics]
    ELSE IF Len(FaceFrames(frames)) < 2
         THEN [score |-> Q(100, 1), metrics |-> [insufficient_data |-> TRUE]]
    ELSE StabilityFrom(StabilityMetrics(Variance(Yaws(FaceFrames(frames))),
                                        Variance(Pitches(FaceFrames(frames))),
                                        MaxDelta(Yaws(FaceFrames(frames))),
                                        MaxDelta(Pitches(FaceFrames(frames)))))

\* frames[-1].timestamp - frames[0].timestamp if len(frames) > 1 else 0, in seconds
DurationSeconds(frames) ==
    IF Len(frames) > 1 THEN Q(frames[Len(frames)].timestamp - frames[1].timestamp, 100)
    ELSE Q(0, 1)

\* max(duration_seconds / 60.0, 1e-6)
DurationMinutes(frames) == QMax(QDiv(DurationSeconds(frames), Q(60, 1)), Q(1, 1000000))

\* min(max((blink_rate - 10.0) / (40.0 - 10.0) * 100.0, 0.0), 100.0)
BlinkFatigue(blink_rate) == Clamp100(QMul(QDiv(QSub(blink_rate, Q(10, 1)), Q(30, 1)), Q(100, 1)))

\* min(max((yawn_rate / 2.0) * 100.0, 0.0), 100.0)
YawnFatigue(yawn_rate) == Clamp100(QMul(QDiv(yawn_rate, Q(2, 1)), Q(100, 1)))

FatigueMetrics(avg_ear, blink_rate, yawn_rate, looking_away_ratio, stability_score, duration_minutes, total_blinks, total_yawns) ==
    [ average_ear |-> avg_ear,
      ear_fatigue |-> QSub(Q(100, 1), EarScore(avg_ear)),
      blink_rate_per_min |-> blink_rate,
      blink_fatigue |-> BlinkFatigue(blink_rate),
      yawn_rate_per_min |-> yawn_rate,
      yawn_fatigue |-> YawnFatigue(yawn_rate),
      looking_away_ratio |-> looking_away_ratio,
      looking_away_fatigue |-> Clamp100(QMul(looking_away_ratio, Q(100, 1))),
      stability_score |-> stability_score,
      stability_fatigue |-> QSub(Q(100, 1), stability_score),
      duration_minutes |-> duration_minutes,
      total_blinks |-> total_blinks,
      total_yawns |-> total_yawns ]

\* the five components at 0.25, 0.20, 0.30, 0.15 and 0.10, clamped
FatigueFrom(metrics) ==
    [ score |-> Clamp100(QAdd(QAdd(QAdd(QMul(metrics.ear_fatigue, Q(25, 100)),
                                        QMul(metrics.blink_fatigue, Q(20, 100))),
                                   QAdd(QMul(metrics.yawn_fatigue, Q(30, 100)),
                                        QMul(metrics.looking_away_fatigue, Q(15, 100)))),
                              QMul(metrics.stability_fatigue, Q(10, 100)))),
      metrics |-> metrics ]

FatigueOf(frames, face_frames, duration_minutes) ==
    FatigueFrom(FatigueMetrics(MeanEar(face_frames),
                               QDiv(Q(TotalBlinks(face_frames), 1), duration_minutes),
                               QDiv(Q(TotalYawns(face_frames), 1), duration_minutes),
                               Q(CountAttention(face_frames, "LOOKING_AWAY"), Len(face_frames)),
                               CalculateStabilityScore(frames).score,
                               duration_minutes,
                               TotalBlinks(face_frames),
                               TotalYawns(face_frames)))

\* calculate_fatigue_score(frames)
CalculateFatigueScore(frames) ==
    IF frames = <<>> THEN [score |-> Q(0, 1), metrics |-> NoMetrics]
    ELSE IF FaceFrames(frames) = <<>> THEN [score |-> Q(0, 1), metrics |-> NoMetrics]
    ELSE FatigueOf(frames, FaceFrames(frames), DurationMinutes(frames))

\* SessionMetrics() of an empty history
NoSession ==
    [ total_frames |-> 0, frames_with_face |-> 0, total_attentive_frames |-> 0,
      total_looking_away_frames |-> 0, total_unknown_frames |-> 0, total_blinks |-> 0,
      average_ear |-> Q(0, 1), average_yaw |-> Q(0, 1), average_pitch |-> Q(0, 1),
      session_duration |-> Q(0, 1) ]

SessionOf(frames, face_frames) ==
    [ total_frames |-> Len(frames),
      frames_with_face |-> Len(face_frames),
      total_attentive_frames |-> CountAttention(face_frames, "ATTENTIVE"),
      total_looking_away_frames |-> CountAttention(face_frames, "LOOKING_AWAY"),
      total_unknown_frames |-> Len(face_frames) - CountAttention(face_frames, "ATTENTIVE")
                                  - CountAttention(face_frames, "LOOKING_AWAY"),
      total_blinks |-> TotalBlinks(face_frames),
      average_ear |-> IF face_frames = <<>> THEN Q(0, 1) ELSE MeanEar(face_frames),
      average_yaw |-> IF face_frames = <<>> THEN Q(0, 1) ELSE MeanOf(Yaws(face_frames)),
      average_pitch |-> IF face_frames = <<>> THEN Q(0, 1) ELSE MeanOf(Pitches(face_frames)),
      session_duration |-> DurationSeconds(frames) ]

\* calculate_session_metrics(frames), without the processing fps
CalculateSessionMetrics(frames) ==
    IF frames = <<>> THEN NoSession ELSE SessionOf(frames, FaceFrames(frames))

Above(score, n) == QLess(Q(n, 1), score)

Below(score, n) == QLess(score, Q(n, 1))

FocusInsight(focus_score) ==
    IF Above(focus_score, 80) THEN "Excellent focus"
    ELSE IF Above(focus_score, 60) THEN "Good focus"
    ELSE IF Above(focus_score, 40) THEN "Moderate focus"
    ELSE "Low focus"

EngagementInsight(engagement_score) ==
    IF Above(engagement_score, 80) THEN "Eyes engaged"
    ELSE IF Above(engagement_score, 60) THEN "Eyes partially engaged"
    ELSE "Eye engagement low"

StabilityInsight(stability_score) ==
    IF Above(stability_score, 80) THEN "Head position very stable"
    ELSE IF Above(stability_score, 60) THEN "Head position relatively stable"
    ELSE "Frequent head movements detected"

\* _generate_insights: each message by its leading words
GenerateInsights(focus_score, engagement_score, stability_score, session) ==
    IF session.total_frames = 0 THEN << "No face detected during session" >>
    ELSE << FocusInsight(focus_score), EngagementInsight(engagement_score),
            StabilityInsight(stability_score) >>
         \o (IF Above(session.session_duration, 300) THEN << "Session duration" >> ELSE << >>)

OrKeepUp(recommendations) ==
    IF recommendations = << >> THEN << "Keep up the great work! Maintain current habits." >>
    ELSE recommendations

\* _generate_recommendations
GenerateRecommendations(focus_score, engagement_score, stability_score, session) ==
    OrKeepUp(
        (IF Below(focus_score, 50)
         THEN << "Take a 5-minute break to reset focus",
                 "Try the Pomodoro technique: 25 min focus + 5 min break" >>
         ELSE << >>)
        \o (IF Below(engagement_score, 60)
            THEN << "Reduce eye strain: Look away from screen for 20 seconds",
                    "Stay hydrated - dehydration affects eye health" >>
            ELSE << >>)
        \o (IF Below(stability_score, 50)
            THEN << "Adjust monitor/lighting to reduce head movement",
                    "Improve desk ergonomics" >>
            ELSE << >>)
        \o (IF Above(session.session_duration, 3600) /\ Below(focus_score, 70)
            THEN << "Consider a longer break - you've been working for a while" >>
            ELSE << >>))

\* focus * focus_weight + engagement * engagement_weight + stability * stability_weight
Blend(eng, focus_score, engagement_score, stability_score) ==
    QAdd(QAdd(QMul(focus_score, eng.focus_weight), QMul(engagement_score, eng.engagement_weight)),
         QMul(stability_score, eng.stability_weight))

\* variant: a tenth of the fatigue score taken off the blend
OverallFromLessFatigue(eng, focus, engagement, stability, fatigue, session) ==
    [ overall_score |->
          Clamp100(QSub(Blend(eng, focus.score, engagement.score, stability.score),
                        QMul(fatigue.score, Q(1, 10)))),
      focus_score |-> focus.score,
      engagement_score |-> engagement.score,
      stability_score |-> stability.score,
      components |->
        [ focus |-> focus.score, engagement |-> engagement.score,
          stability |-> stability.score, fatigue |-> fatigue.score,
          focus_metrics |-> focus.metrics, engagement_metrics |-> engagement.metrics,
          stability_metrics |-> stability.metrics, fatigue_metrics |-> fatigue.metrics ],
      insights |-> GenerateInsights(focus.score, engagement.score, stability.score, session),
      recommendations |->
          GenerateRecommendations(focus.score, engagement.score, stability.score, session) ]

\* the ProductivityScore of a non-empty history
OverallFrom(eng, focus, engagement, stability, fatigue, session) ==
    [ overall_score |-> Clamp100(Blend(eng, focus.score, engagement.score, stability.score)),
      focus_score |-> focus.score,
      engagement_score |-> engagement.score,
      stability_score |-> stability.score,
      components |->
        [ focus |-> focus.score, engagement |-> engagement.score,
          stability |-> stability.score, fatigue |-> fatigue.score,
          focus_metrics |-> focus.metrics, engagement_metrics |-> engagement.metrics,
          stability_metrics |-> stability.metrics, fatigue_metrics |-> fatigue.metrics ],
      insights |-> GenerateInsights(focus.score, engagement.score, stability.score, session),
      recommendations |->
          GenerateRecommendations(focus.score, engagement.score, stability.score, session) ]

\* calculate_overall_score(frames)
CalculateOverallScore(eng, frames) ==
    IF frames = <<>>
    THEN [ overall_score |-> Q(0, 1), focus_score |-> Q(0, 1),
           engagement_score |-> Q(0, 1), stability_score |-> Q(0, 1),
           components |-> NoMetrics,
           insights |-> << "No frames to analyze" >>,
           recommendations |-> << "Ensure video is being captured correctly" >> ]
    ELSE OverallFrom(eng, CalculateFocusScore(frames), CalculateEngagementScore(frames),
                     CalculateStabilityScore(frames), CalculateFatigueScore(frames),
                     CalculateSessionMetrics(frames))

\* the history a scoring query leaves behind: the comprehensions over frames
\* build new lists, nothing is removed from or written to the argument
HistoryAfterFiltering(frames) == FaceFrames(frames)

HistoryAfterScoring(frames) == frames

\* ProductivityScoring.add_frame(frame_data); answers given on the former
\* history are dropped from the record
AddFrame(frame_data) ==
    /\ frames_history' = Append(frames_history, frame_data)
    /\ answer' = NoAnswer
    /\ UNCHANGED engine

\* ProductivityScoring.add_frame_from_pipeline(pipeline_output)
AddFrameFromPipeline(pipeline_output) ==
    /\ record' = pipeline_output
    /\ AddFrame(FromPipelineOutput(pipeline_output))

\* ProductivityScoring.reset()
Reset ==
    /\ frames_history' = <<>>
    /\ answer' = NoAnswer
    /\ UNCHANGED engine

\* a query of the engine or of the facade: the answer it returns and the
\* history it leaves
Query(name, result) ==
    /\ answer' = [query |-> name, on |-> frames_history, result |-> result]
    /\ frames_history' = HistoryAfterScoring(frames_history)
    /\ UNCHANGED engine

\* ProductivityScoring.get_current_score()
GetCurrentScore == Query("get_current_score", CalculateOverallScore(engine, frames_history))

\* ProductivityScoring.get_session_metrics()
GetSessionMetrics == Query("get_session_metrics", CalculateSessionMetrics(frames_history))

\* ProductivityScoring.get_insights(): the score and the session metrics; the
\* formatted entries and the pattern analyses are computed from these two
\* and from the history without writing to any of them
GetInsights ==
    Query("get_insights",
          [ productivity_score |-> CalculateOverallScore(engine, frames_history),
            session_metrics |-> CalculateSessionMetrics(frames_history) ])

\* engine.calculate_*_score(frames_history)
AskFocusScore == Query("calculate_focus_score", CalculateFocusScore(frames_history))

AskEngagementScore == Query("calculate_engagement_score", CalculateEngagementScore(frames_history))

AskStabilityScore == Query("calculate_stability_score", CalculateStabilityScore(frames_history))

AskFatigueScore == Query("calculate_fatigue_score", CalculateFatigueScore(frames_history))

\* ProductivityScoring() and a pipeline that has processed no frame
InitSession ==
    /\ detections = <<>>
    /\ record = NoRecord
    /\ frames_history = <<>>
    /\ engine = NewEngine(40, 35, 25)
    /\ answer = NoAnswer

-----------------------------------------------------------------------------
(* HumanCenteredInsights.analyze_focus_patterns *)

\* window_size = 30 frames
window_size == 30

\* fewer frames than this are insufficient data
min_pattern_frames == 10

InsufficientData == [insufficient_data |-> TRUE]

\* frames[i : i + window_size], i counted from 1
WindowFrames(frames, i) ==
    SubSeq(frames, i, IF i + window_size - 1 < Len(frames) THEN i + window_size - 1 ELSE Len(frames))

\* variant: the ratio taken over every frame of the window
WindowRatioOverAll(window_frames) ==
    Q(CountAttention(FaceFrames(window_frames), "ATTENTIVE"), Len(window_frames))

\* attentive_count / sum(1 for f in window_frames if f.primary)
WindowRatio(window_frames) ==
    Q(CountAttention(FaceFrames(window_frames), "ATTENTIVE"), Len(FaceFrames(window_frames)))

\* the loop over range(0, len(frames), window_size): a window with a primary
\* face in some frame appends its ratio
RECURSIVE FocusWindowsFrom(_, _, _)
FocusWindowsFrom(frames, i, focus_windows) ==
    IF i > Len(frames) THEN focus_windows
    ELSE IF FaceFrames(WindowFrames(frames, i)) # <<>>
         THEN FocusWindowsFrom(frames, i + window_size,
                               Append(focus_windows, WindowRatio(WindowFrames(frames, i))))
         ELSE FocusWindowsFrom(frames, i + window_size, focus_windows)

\* sum(half) / len(half) if half else 0
HalfAverage(half) == IF half = <<>> THEN Q(0, 1) ELSE MeanOf(half)

\* variant: the first half less the second
FocusTrendReversed(focus_windows) ==
    QSub(HalfAverage(SubSeq(focus_windows, 1, Len(focus_windows) \div 2)),
         HalfAverage(SubSeq(focus_windows, Len(focus_windows) \div 2 + 1, Len(focus_windows))))

\* second_half_avg - first_half_avg
FocusTrend(focus_windows) ==
    QSub(HalfAverage(SubSeq(focus_windows, Len(focus_windows) \div 2 + 1, Len(focus_windows))),
         HalfAverage(SubSeq(focus_windows, 1, Len(focus_windows) \div 2)))

\* the report on a non-empty list of window ratios; focus_consistency, a
\* square root of the variance, is not part of the model
PatternReport(focus_windows) ==
    [ average_focus |-> MeanOf(focus_windows),
      focus_trend |-> FocusTrend(focus_windows),
      fatigue_detected |-> QLess(FocusTrend(focus_windows), Q(-1, 10)),
      focus_windows |-> focus_windows ]

PatternsFrom(focus_windows) ==
    IF focus_windows = <<>> THEN InsufficientData ELSE PatternReport(focus_windows)

\* analyze_focus_patterns(frames)
AnalyzeFocusPatterns(frames) ==
    IF Len(frames) < min_pattern_frames THEN InsufficientData
    ELSE PatternsFrom(FocusWindowsFrom(frames, 1, <<>>))

-----------------------------------------------------------------------------
(* HumanCenteredInsights: break estimate and feedback.  A fatigue level is *)
(* in hundredths, a session duration in seconds, a score in points; the    *)
(* feedback strings are named by what they say.                            *)

\* a dict without the key asked for
Has(dict, key) == key \in DOMAIN dict

\* fatigue_analysis.get("fatigue_level", 0)
FatigueLevelOf(fatigue_analysis) ==
    IF Has(fatigue_analysis, "fatigue_level") THEN fatigue_analysis.fatigue_level ELSE 0

\* variant: a level of exactly 0.7 is in the long tier, 0.4 in the medium
BreakTypeInclusive(fatigue_level) ==
    IF fatigue_level >= 70 THEN "long"
    ELSE IF fatigue_level >= 40 THEN "medium"
    ELSE "pomodoro"

\* the if / elif / else over the fatigue level
BreakType(fatigue_level) ==
    IF fatigue_level > 70 THEN "long"
    ELSE IF fatigue_level > 40 THEN "medium"
    ELSE "pomodoro"

\* 15 * 60, 20 * 60 and base_work_duration = 25 * 60
WorkDuration(break_type) ==
    IF break_type = "long" THEN 15 * 60
    ELSE IF break_type = "medium" THEN 20 * 60
    ELSE 25 * 60

BreakDescription(break_type) ==
    IF break_type = "long" THEN "15-20 minute break"
    ELSE IF break_type = "medium" THEN "10-15 minute break"
    ELSE "5-10 minute break"

\* max(0, x)
AtLeastZero(x) == IF 0 > x THEN 0 ELSE x

BreakFor(session_duration, fatigue_level) ==
    [ recommended_break_duration |->
          AtLeastZero(WorkDuration(BreakType(fatigue_level)) - session_duration),
      break_type |-> BreakType(fatigue_level),
      break_type_description |-> BreakDescription(BreakType(fatigue_level)),
      next_break_in_seconds |->
          AtLeastZero(WorkDuration(BreakType(fatigue_level)) - session_duration),
      rationale |-> fatigue_level ]

\* estimate_optimal_break_time(session_duration, focus_patterns, fatigue_analysis)
EstimateOptimalBreakTime(session_duration, focus_patterns, fatigue_analysis) ==
    BreakFor(session_duration, FatigueLevelOf(fatigue_analysis))

FatigueFeedback(fatigue_level) ==
    IF fatigue_level > 70 THEN <<"fatigued: substantial break">>
    ELSE IF fatigue_level > 40 THEN <<"mild fatigue: stretch">>
    ELSE <<>>

ConsistencyFeedback(focus_patterns) ==
    IF ~Has(focus_patterns, "focus_consistency") THEN <<>>
    ELSE IF QLess(Q(9, 10), focus_patterns.focus_consistency) THEN <<"excellent consistency">>
    ELSE IF QLess(focus_patterns.focus_consistency, Q(5, 10)) THEN <<"focus fluctuating">>
    ELSE <<>>

TrendFeedback(focus_patterns) ==
    IF ~Has(focus_patterns, "focus_trend") THEN <<>>
    ELSE IF QLess(Q(1, 10), focus_patterns.focus_trend) THEN <<"focus improving">>
    ELSE IF QLess(focus_patterns.focus_trend, Q(-1, 10)) THEN <<"focus declining">>
    ELSE <<>>

ScoreFeedback(current_score) ==
    IF current_score > 85 THEN <<"outstanding performance">>
    ELSE IF current_score < 40 THEN <<"productivity low">>
    ELSE <<>>

\* variant: nothing is added to an empty list
OrSteadyNothing(feedback) == feedback

\* if not feedback: the default affirmation
OrSteady(feedback) == IF feedback = <<>> THEN <<"productivity steady">> ELSE feedback

\* get_personalized_feedback(focus_patterns, fatigue_analysis, current_score)
GetPersonalizedFeedback(focus_patterns, fatigue_analysis, current_score) ==
    OrSteady(FatigueFeedback(FatigueLevelOf(fatigue_analysis))
                 \o ConsistencyFeedback(focus_patterns)
                 \o TrendFeedback(focus_patterns)
                 \o ScoreFeedback(current_score))

-----------------------------------------------------------------------------
(* EyeAnalysis.  Landmark coordinates are whole tenths of a pixel and the  *)
(* eyes drawn have whole distances between the landmark pairs measured.    *)

\* EyeAnalysis(ear_threshold=0.20), in hundredths
ear_threshold == 20

\* layouts with fewer points yield no eye landmarks
InsightFacePoints == 106

\* np.zeros((6, 2))
ZeroEye == [i \in 1..6 |-> <<0, 0>>]

\* the square root of a perfect square
Root(n) == CHOOSE r \in 0..(MaxEyeSpan + 1) : r * r = n

\* _euclidean(a, b)
_euclidean(a, b) == Root((a[1] - b[1]) * (a[1] - b[1]) + (a[2] - b[2]) * (a[2] - b[2]))

EarFrom(A, B, C) == IF C = 0 THEN Q(0, 1) ELSE Q(A + B, 2 * C)

\* eye_aspect_ratio(eye_landmarks) = (|p2-p6| + |p3-p5|) / (2 |p1-p4|)
eye_aspect_ratio(eye) ==
    EarFrom(_euclidean(eye[2], eye[6]), _euclidean(eye[3], eye[5]), _euclidean(eye[1], eye[4]))

\* variant: an EAR equal to the threshold is closed (>)
EyeOpenExclusive(ear, threshold) == QLess(Q(threshold, 100), ear)

\* ear >= self.ear_threshold
EyeOpen(ear, threshold) == ~QLess(ear, Q(threshold, 100))

\* get_eye: the six eye points of a layout that has them, zeros otherwise
GetEye(n_pts, eye) == IF n_pts >= InsightFacePoints THEN eye ELSE ZeroEye

EyeResult(ear, threshold) == [ear |-> ear, open |-> EyeOpen(ear, threshold)]

\* EyeAnalysis(threshold).analyze(landmarks), landmarks an array of n_pts
\* points holding the two eyes
Analyze(threshold, landmarks) ==
    [ left_eye |-> EyeResult(eye_aspect_ratio(GetEye(landmarks.n_pts, landmarks.left)), threshold),
      right_eye |-> EyeResult(eye_aspect_ratio(GetEye(landmarks.n_pts, landmarks.right)), threshold) ]

-----------------------------------------------------------------------------
(* Inputs and specifications *)

Forward == <<0, 0, 0>>

Away == <<40, 0, 0>>

\* a detection and what the frame holds for it: the pose the estimator
\* finds, what the eye and mouth analyses find in its landmarks, the lag of
\* the clock reading; the estimator returns both and every write to a
\* diagnostic sink succeeds
Det(bbox, left_open, right_open, mouth_open, pose, lag) ==
    [ bbox |-> bbox, left_open |-> left_open, right_open |-> right_open,
      mouth_open |-> mouth_open, pose |-> pose, lag |-> lag,
      estimator |-> "ok", sinks_ok |-> TRUE ]

\* the same detection with the estimator returning no landmarks
\* ("no_landmarks") or raising ("raises"), and with the sink writes failing
Troubled(det, estimator, sinks_ok) ==
    [det EXCEPT !.estimator = estimator, !.sinks_ok = sinks_ok]

BoxA == <<0, 0, 10, 10>>

\* IoU(BoxA, BoxA2) = 70 / 200, exactly 0.35
BoxA2 == <<3, 0, 20, 10>>

\* IoU(BoxD, BoxA) = 80 / 150 and IoU(BoxD, BoxA2) = 120 / 180
BoxD == <<2, 0, 15, 10>>

ZeroBox == <<0, 0, 0, 0>>

\* no _iou evaluated yet
NoIoU == <<-1, 1>>

\* the analyzer after __init__
InitAnalyzer ==
    /\ clock = Epoch
    /\ frame_counter = 0
    /\ states = EmptyMap
    /\ next_state_id = 0
    /\ out = [timestamp |-> Epoch, frame_id |-> 0, face_count |-> 0, faces |-> <<>>]
    /\ updates = <<>>
    /\ track_log = EmptyMap

Init ==
    /\ InitAnalyzer
    /\ InitSession
    /\ iou_a = ZeroBox
    /\ iou_b = ZeroBox
    /\ iou_out = NoIoU
    /\ iou_rev = NoIoU

\* Spec: track association and pruning, up to two detections a frame, frames
\* 0.1 s or 2.01 s apart
TrackGaps == {10, 201}

TrackFaces ==
    { Det(b, e, e, m, Forward, 0) : b \in {BoxA, BoxA2, BoxD}, e \in BOOLEAN, m \in BOOLEAN }

PlainFaces ==
    { Det(b, TRUE, TRUE, FALSE, Forward, 0) : b \in {BoxA, BoxA2, BoxD, NoBox} }

TrackDetLists ==
    {<<>>} \cup { <<d>> : d \in TrackFaces \cup PlainFaces }
           \cup { <<d, e>> : d \in PlainFaces, e \in PlainFaces }

Frame ==
    /\ frame_counter < MaxFrames
    /\ \E dt \in TrackGaps, dets \in TrackDetLists : AnalyzeFrame(dt, dets)
    /\ UNCHANGED session_vars

Next == Frame

Spec == Init /\ [][Next]_vars

\* SpecBlink: one face; eye closures of 0.02 s to 0.71 s under either pose;
\* the clock reading of the state machines lags the frame timestamp by 0 or 10 ms
BlinkGaps == {2, 10, 60}

ClockLags == {0, 1}

BlinkFaces ==
    { Det(BoxA, e, e, FALSE, p, l) : e \in BOOLEAN, p \in {Forward, Away}, l \in ClockLags }

BlinkFrame ==
    /\ frame_counter < MaxEventFrames
    /\ \E dt \in BlinkGaps, d \in BlinkFaces : AnalyzeFrame(dt, <<d>>)
    /\ UNCHANGED session_vars

NextBlink == BlinkFrame

SpecBlink == Init /\ [][NextBlink]_vars

\* SpecYawn: one face; mouth openings of 0.19 s to 3.02 s under either pose
YawnGaps == {19, 30, 150}

YawnFaces ==
    { Det(BoxA, TRUE, TRUE, m, p, l) : m \in BOOLEAN, p \in {Forward, Away}, l \in ClockLags }

YawnFrame ==
    /\ frame_counter < MaxEventFrames
    /\ \E dt \in YawnGaps, d \in YawnFaces : AnalyzeFrame(dt, <<d>>)
    /\ UNCHANGED session_vars

NextYawn == YawnFrame

SpecYawn == Init /\ [][NextYawn]_vars

\* SpecEvents: one face; eyes and mouth closing and opening together or
\* apart under either pose, frames 0.1 s or 3.01 s apart
EventGaps == {10, 301}

EventFaces ==
    { Det(BoxA, e, e, m, p, 0) : e \in BOOLEAN, m \in BOOLEAN, p \in {Forward, Away} }

EventFrame ==
    /\ frame_counter < MaxEventFrames
    /\ \E dt \in EventGaps, d \in EventFaces : AnalyzeFrame(dt, <<d>>)
    /\ UNCHANGED session_vars

NextEvents == EventFrame

SpecEvents == Init /\ [][NextEvents]_vars

\* SpecRefractory: one face looking forward; blinks and yawns that end
\* around their refractory windows
RefractoryGaps == {10, 25}

RefractoryFaces ==
    { Det(BoxA, e, e, m, Forward, l) : e \in BOOLEAN, m \in BOOLEAN, l \in ClockLags }

RefractoryFrame ==
    /\ frame_counter < MaxEventFrames
    /\ \E dt \in RefractoryGaps, d \in RefractoryFaces : AnalyzeFrame(dt, <<d>>)
    /\ UNCHANGED session_vars

NextRefractory == RefractoryFrame

SpecRefractory == Init /\ [][NextRefractory]_vars

\* SpecAttention: one face; raw yaw and pitch below, at and above the
\* thresholds, of either sign; each eye open or closed
AttentionPoses ==
    { Forward, Away, <<15, 0, 0>>, <<14, 0, 0>>, <<-15, 0, 0>>, <<0, 15, 0>>, <<0, -16, 0>>, <<14, 14, 40>> }

AttentionFaces ==
    { Det(BoxA, l, r, FALSE, p, 0) : l \in BOOLEAN, r \in BOOLEAN, p \in AttentionPoses }

AttentionFrame ==
    /\ frame_counter < MaxFrames
    /\ \E d \in AttentionFaces : AnalyzeFrame(10, <<d>>)
    /\ UNCHANGED session_vars

NextAttention == AttentionFrame

SpecAttention == Init /\ [][NextAttention]_vars

\* SpecPipeline: process_frame on frames of up to two detections, boxes of
\* different and of zero area, detections without a bbox among them
PipelineFaces ==
    { Det(b, TRUE, TRUE, FALSE, Forward, 0) : b \in {BoxA, BoxA2, ZeroBox, NoBox} }
        \cup { Det(BoxD, FALSE, FALSE, FALSE, Away, 0) }

PipelineDetLists ==
    {<<>>} \cup { <<d>> : d \in PipelineFaces }
           \cup { <<d, e>> : d \in PipelineFaces, e \in PipelineFaces }

PipelineFrame ==
    /\ frame_counter < MaxFrames
    /\ \E dets \in PipelineDetLists : ProcessFrame(10, dets)

NextPipeline == PipelineFrame

SpecPipeline == Init /\ [][NextPipeline]_vars

\* a FrameData with one face of the given attention, or with none
ScoredFace(attention, yaw, pitch, left_open, right_open, blink_count, yawn_count) ==
    [ bbox |-> BoxA, yaw |-> MilliDeg(yaw), pitch |-> MilliDeg(pitch), roll |-> 0,
      left_ear |-> EarOf(left_open), right_ear |-> EarOf(right_open),
      eyes_open_left |-> left_open, eyes_open_right |-> right_open,
      blink_count |-> blink_count, mouth_open |-> FALSE, yawn_count |-> yawn_count,
      attention |-> attention ]

FrameOf(face, timestamp) ==
    [ frame_id |-> 0, timestamp |-> timestamp,
      face_count |-> IF face = NoFace THEN 0 ELSE 1,
      face_detected |-> face # NoFace,
      faces |-> IF face = NoFace THEN <<>> ELSE <<face>>,
      primary |-> face ]

\* SpecFocus: calculate_focus_score on every history of up to MaxFocusFrames
\* frames, each without a face or with an attentive or a looking-away face
FocusFaces ==
    { NoFace, ScoredFace("ATTENTIVE", 0, 0, TRUE, TRUE, 0, 0),
      ScoredFace("LOOKING_AWAY", 40, 0, TRUE, TRUE, 0, 0) }

FocusHistories ==
    UNION { [1..n -> { FrameOf(f, Epoch) : f \in FocusFaces }] : n \in 0..MaxFocusFrames }

InitFocus ==
    /\ InitAnalyzer
    /\ iou_a = ZeroBox
    /\ iou_b = ZeroBox
    /\ iou_out = NoIoU
    /\ iou_rev = NoIoU
    /\ detections = <<>>
    /\ record = NoRecord
    /\ frames_history \in FocusHistories
    /\ engine = NewEngine(40, 35, 25)
    /\ answer = NoAnswer

AskFocus ==
    /\ answer = NoAnswer
    /\ answer' = [ query |-> "calculate_focus_score", on |-> frames_history,
                   result |-> CalculateFocusScore(frames_history) ]
    /\ UNCHANGED <<frames_history, engine, detections, record>>
    /\ UNCHANGED analyzer_vars
    /\ UNCHANGED iou_vars

NextFocus == AskFocus

SpecFocus == InitFocus /\ [][NextFocus]_vars

\* SpecIoU: _iou on every pair of boxes with x1 <= x2 and y1 <= y2 in 0..MaxCoord
IoUBoxes ==
    { <<x1, y1, x2, y2>> : x1 \in 0..MaxCoord, y1 \in 0..MaxCoord,
                           x2 \in 0..MaxCoord, y2 \in 0..MaxCoord }

WellFormed(b) == b[1] <= b[3] /\ b[2] <= b[4]

\* SpecRobust: one face whose estimator may return no landmarks or raise and
\* whose sink writes may fail, alone or next to a detection without a bbox
Malformed == Det(NoBox, TRUE, TRUE, FALSE, Forward, 0)

RobustFaces ==
    { Troubled(Det(BoxA, e, e, FALSE, p, 0), "ok", w) :
          e \in BOOLEAN, p \in {Forward, Away}, w \in BOOLEAN }
    \cup { Troubled(Det(BoxA, TRUE, TRUE, FALSE, Away, 0), "no_landmarks", TRUE) }
    \cup { Troubled(Det(BoxA, TRUE, TRUE, FALSE, Forward, 0), "raises", w) : w \in BOOLEAN }

RobustDetLists ==
    { <<>>, <<Malformed>> }
    \cup { <<d>> : d \in RobustFaces }
    \cup { <<Malformed, d>> : d \in RobustFaces }
    \cup { <<d, Malformed>> : d \in RobustFaces }

RobustFrame ==
    /\ frame_counter < MaxFrames
    /\ \E dets \in RobustDetLists :
          /\ AnalyzeFrame(10, dets)
          /\ detections' = dets
    /\ UNCHANGED <<record, frames_history, engine, answer>>

NextRobust == RobustFrame

SpecRobust == Init /\ [][NextRobust]_vars

\* SpecScoring: a session of up to MaxScoreFrames frames, added one by one and
\* queried at any point
ScoringFaces ==
    { NoFace,
      ScoredFace("ATTENTIVE", 0, 0, TRUE, TRUE, 0, 0),
      ScoredFace("ATTENTIVE", 0, 0, TRUE, TRUE, 0, 1),
      ScoredFace("LOOKING_AWAY", 40, 0, TRUE, TRUE, 1, 0),
      ScoredFace("UNKNOWN", 0, 0, FALSE, FALSE, 0, 0) }

\* time between two frames of a session, in ticks
ScoringGaps == {10, 40000}

\* focus, engagement and stability weights given to the constructor, in hundredths
EngineArgs == { <<40, 35, 25>>, <<50, 50, 100>> }

NextTimestamp(gap) ==
    IF frames_history = <<>> THEN Epoch
    ELSE frames_history[Len(frames_history)].timestamp + gap

InitScoring ==
    /\ InitAnalyzer
    /\ iou_a = ZeroBox
    /\ iou_b = ZeroBox
    /\ iou_out = NoIoU
    /\ iou_rev = NoIoU
    /\ detections = <<>>
    /\ record = NoRecord
    /\ frames_history = <<>>
    /\ engine \in { NewEngine(a[1], a[2], a[3]) : a \in EngineArgs }
    /\ answer = NoAnswer

ScoringStep(A) ==
    /\ A
    /\ UNCHANGED <<detections, record>>
    /\ UNCHANGED analyzer_vars
    /\ UNCHANGED iou_vars

AddScoredFrame ==
    /\ Len(frames_history) < MaxScoreFrames
    /\ \E face \in ScoringFaces, gap \in ScoringGaps :
           ScoringStep(AddFrame(FrameOf(face, NextTimestamp(gap))))

NextScoring ==
    \/ AddScoredFrame
    \/ ScoringStep(Reset)
    \/ ScoringStep(GetCurrentScore)
    \/ ScoringStep(GetSessionMetrics)
    \/ ScoringStep(GetInsights)
    \/ ScoringStep(AskFocusScore)
    \/ ScoringStep(AskEngagementScore)
    \/ ScoringStep(AskStabilityScore)
    \/ ScoringStep(AskFatigueScore)

SpecScoring == InitScoring /\ [][NextScoring]_vars

\* SpecConvert: pipeline outputs with no face or with one face of any
\* attention string, converted into the history and scored
AttentionStrings ==
    { "attentive", "looking_away", "eyes_closed", "unknown", "drowsy",
      "ATTENTIVE", "Looking_Away" }

\* what _prepare_scoring_output assembles for a frame with this one face
OutputWith(attention_str, timestamp) ==
    PrepareWith([ timestamp |-> timestamp, frame_id |-> 0, face_count |-> 1 ],
                << [ bbox |-> BoxA, yaw |-> 0, pitch |-> 0, roll |-> 0,
                     left_ear |-> EarOf(attention_str # "eyes_closed"),
                     right_ear |-> EarOf(attention_str # "eyes_closed"),
                     eyes_open_left |-> attention_str # "eyes_closed",
                     eyes_open_right |-> attention_str # "eyes_closed",
                     blink_count |-> 0, attention |-> attention_str,
                     mouth_open |-> FALSE, yawn_count |-> 0 ] >>)

OutputWithout(timestamp) ==
    PrepareWith([ timestamp |-> timestamp, frame_id |-> 0, face_count |-> 0 ], <<>>)

ConvertOutputs(timestamp) ==
    { OutputWithout(timestamp) } \cup { OutputWith(s, timestamp) : s \in AttentionStrings }

ConvertStep(A) ==
    /\ A
    /\ UNCHANGED detections
    /\ UNCHANGED analyzer_vars
    /\ UNCHANGED iou_vars

ConvertFrame ==
    /\ Len(frames_history) < MaxScoreFrames
    /\ \E o \in ConvertOutputs(NextTimestamp(10)) : ConvertStep(AddFrameFromPipeline(o))

ScoreConverted(A) == ConvertStep(A /\ UNCHANGED record)

NextConvert ==
    \/ ConvertFrame
    \/ ScoreConverted(GetCurrentScore)
    \/ ScoreConverted(GetSessionMetrics)

SpecConvert == InitScoring /\ [][NextConvert]_vars

\* SpecEar: EyeAnalysis.analyze on eyes of EAR 0 to 1/2 and of zero width,
\* under three thresholds
EyeCorners == { <<0, 0>>, <<40, 0>>, <<24, 32>>, <<30, 40>> }

LidGaps == { <<0, 0>>, <<0, 2>>, <<0, 6>>, <<0, 8>>, <<0, 10>>, <<3, 4>>, <<6, 8>> }

\* p1 at the origin, p4 at the corner, p2-p6 and p3-p5 apart by the gaps
EyeOf(corner, g26, g35) ==
    << <<0, 0>>, <<10 + g26[1], g26[2]>>, <<20 + g35[1], g35[2]>>,
       corner, <<20, 0>>, <<10, 0>> >>

EyeShapes == { EyeOf(c, g, h) : c \in EyeCorners, g \in LidGaps, h \in LidGaps }

OtherEyes == { ZeroEye, EyeOf(<<40, 0>>, <<0, 2>>, <<0, 2>>), EyeOf(<<40, 0>>, <<0, 10>>, <<0, 10>>) }

EarThresholds == { ear_threshold, 25, 50 }

LandmarkArrays ==
    { [n_pts |-> n, left |-> l, right |-> r] :
          n \in {68, InsightFacePoints}, l \in EyeShapes, r \in OtherEyes }

AnalyzeEyes ==
    /\ answer = NoAnswer
    /\ \E t \in EarThresholds, lm \in LandmarkArrays :
          answer' = [ query |-> "analyze", on |-> [threshold |-> t, landmarks |-> lm],
                      result |-> Analyze(t, lm) ]
    /\ UNCHANGED <<detections, record, frames_history, engine>>
    /\ UNCHANGED analyzer_vars
    /\ UNCHANGED iou_vars

NextEar == AnalyzeEyes

SpecEar == Init /\ [][NextEar]_vars

\* SpecPrimary: the two selections of the primary face on lists of up to
\* MaxFaces faces whose bbox areas are negative, zero, positive and tied
PrimaryBoxes ==
    { <<0, 0, 2, 2>>, <<1, 1, 3, 3>>, <<0, 0, 3, 3>>, <<0, 0, 0, 3>>, <<2, 0, 0, 2>>, <<3, 0, 0, 3>> }

FaceAt(bbox) == [bbox |-> bbox]

FaceLists ==
    UNION { [1..n -> { FaceAt(b) : b \in PrimaryBoxes }] : n \in 0..MaxFaces }

SelectPrimaries ==
    /\ answer = NoAnswer
    /\ \E faces \in FaceLists :
          answer' = [ query |-> "primary", on |-> faces,
                      result |-> [analyzer |-> PrimaryReturned(faces), pipeline |-> PrimaryOf(faces)] ]
    /\ UNCHANGED <<detections, record, frames_history, engine>>
    /\ UNCHANGED analyzer_vars
    /\ UNCHANGED iou_vars

NextPrimary == SelectPrimaries

SpecPrimary == Init /\ [][NextPrimary]_vars

\* SpecPatterns: analyze_focus_patterns on histories made of up to three
\* runs of like frames, 0 to 93 frames long
PatternPrimaries == { NoFace, [attention |-> "ATTENTIVE"], [attention |-> "LOOKING_AWAY"] }

RunLengths == {0, 1, 9, 10, MaxRun - 2, MaxRun - 1, MaxRun}

Run(primary, n) == [i \in 1..n |-> [primary |-> primary]]

Histories ==
    { Run(p, n) \o Run(q, m) \o Run(r, l) :
          p \in PatternPrimaries, q \in PatternPrimaries, r \in {NoFace, [attention |-> "LOOKING_AWAY"]},
          n \in RunLengths, m \in RunLengths, l \in {0, 1, MaxRun} }

AnalyzePatterns ==
    /\ answer = NoAnswer
    /\ \E frames \in Histories :
          answer' = [ query |-> "analyze_focus_patterns", on |-> frames,
                      result |-> AnalyzeFocusPatterns(frames) ]
    /\ UNCHANGED <<detections, record, frames_history, engine>>
    /\ UNCHANGED analyzer_vars
    /\ UNCHANGED iou_vars

NextPatterns == AnalyzePatterns

SpecPatterns == Init /\ [][NextPatterns]_vars

\* SpecInsights: the break estimate and the feedback on fatigue levels
\* around 0.4 and 0.7 or missing, session durations around 15, 20 and 25
\* minutes, pattern reports with and without data, scores around 40 and 85
FatigueAnalyses ==
    { [k \in {} |-> k] } \cup { [fatigue_level |-> f] : f \in {0, 39, 40, 41, 55, 69, 70, 71, 100} }

SessionDurations ==
    { 0, 600, 899, 900, 901, 1199, 1200, 1201, 1499, 1500, 1501, 3600 }

PatternReports ==
    { InsufficientData }
        \cup { [ focus_consistency |-> Q(c, 100), focus_trend |-> Q(t, 100) ] :
                   c \in {0, 49, 50, 90, 91, 100}, t \in {-100, -11, -10, 0, 10, 11, 100} }

CurrentScores == { 0, 39, 40, 60, 85, 86, 100 }

AskBreakTime ==
    /\ answer = NoAnswer
    /\ \E d \in SessionDurations, p \in {InsufficientData}, f \in FatigueAnalyses :
          answer' = [ query |-> "estimate_optimal_break_time",
                      on |-> [session_duration |-> d, focus_patterns |-> p, fatigue_analysis |-> f],
                      result |-> EstimateOptimalBreakTime(d, p, f) ]
    /\ UNCHANGED <<detections, record, frames_history, engine>>
    /\ UNCHANGED analyzer_vars
    /\ UNCHANGED iou_vars

AskFeedback ==
    /\ answer = NoAnswer
    /\ \E p \in PatternReports, f \in FatigueAnalyses, s \in CurrentScores :
          answer' = [ query |-> "get_personalized_feedback",
                      on |-> [focus_patterns |-> p, fatigue_analysis |-> f, current_score |-> s],
                      result |-> GetPersonalizedFeedback(p, f, s) ]
    /\ UNCHANGED <<detections, record, frames_history, engine>>
    /\ UNCHANGED analyzer_vars
    /\ UNCHANGED iou_vars

NextInsights == AskBreakTime \/ AskFeedback

SpecInsights == Init /\ [][NextInsights]_vars

\* SpecSession: a pipeline on one face looking forward whose eyes and mouth
\* close and open, frames 0.1 s apart, each handed to the scoring session,
\* which is asked for its session metrics and its fatigue score
SessionFaces ==
    { Det(BoxA, e, e, m, Forward, 0) : e \in BOOLEAN, m \in BOOLEAN }

SessionFrame ==
    /\ frame_counter < MaxEventFrames
    /\ \E d \in SessionFaces : ProcessFrame(10, <<d>>)

NextSession ==
    \/ SessionFrame
    \/ ScoringStep(GetSessionMetrics)
    \/ ScoringStep(AskFatigueScore)

SpecSession == Init /\ [][NextSession]_vars

\* SpecRace: the pipeline thread appends frames through the output callback
\* while the timer thread runs get_current_score on the same
\* ProductivityScoring; no lock is taken by either, so an append may fall
\* between any two reads of frames_history that calculate_overall_score
\* makes.  The timer thread's position and the values it has computed so far
\* are held in answer.
Running(pc, parts) ==
    [query |-> "get_current_score", on |-> frames_history, pc |-> pc, result |-> parts]

\* frame_callback in the pipeline thread: add_frame_from_pipeline(output)
WorkerAppend ==
    /\ Len(frames_history) < MaxScoreFrames
    /\ \E face \in ScoringFaces :
          frames_history' = Append(frames_history, FrameOf(face, NextTimestamp(10)))
    /\ UNCHANGED <<engine, answer>>

\* get_current_score() up to the test 'if not frames'
TimerStart ==
    /\ answer = NoAnswer
    /\ answer' = IF frames_history = <<>>
                 THEN Running("done", CalculateOverallScore(engine, <<>>))
                 ELSE Running("focus", NoMetrics)
    /\ UNCHANGED <<engine, frames_history>>

\* the component calls of calculate_overall_score, one read of the list each
TimerFocus ==
    /\ answer # NoAnswer /\ answer.query = "get_current_score" /\ answer.pc = "focus"
    /\ answer' = Running("engagement", [focus |-> CalculateFocusScore(frames_history)])
    /\ UNCHANGED <<engine, frames_history>>

TimerEngagement ==
    /\ answer # NoAnswer /\ answer.query = "get_current_score" /\ answer.pc = "engagement"
    /\ answer' = Running("stability",
                         [ focus |-> answer.result.focus,
                           engagement |-> CalculateEngagementScore(frames_history) ])
    /\ UNCHANGED <<engine, frames_history>>

TimerStability ==
    /\ answer # NoAnswer /\ answer.query = "get_current_score" /\ answer.pc = "stability"
    /\ answer' = Running("fatigue",
                         [ focus |-> answer.result.focus,
                           engagement |-> answer.result.engagement,
                           stability |-> CalculateStabilityScore(frames_history) ])
    /\ UNCHANGED <<engine, frames_history>>

TimerFatigue ==
    /\ answer # NoAnswer /\ answer.query = "get_current_score" /\ answer.pc = "fatigue"
    /\ answer' = Running("session",
                         [ focus |-> answer.result.focus,
                           engagement |-> answer.result.engagement,
                           stability |-> answer.result.stability,
                           fatigue |-> CalculateFatigueScore(frames_history) ])
    /\ UNCHANGED <<engine, frames_history>>

\* calculate_session_metrics, then the insights and the ProductivityScore
\* from the values held
TimerSession ==
    /\ answer # NoAnswer /\ answer.query = "get_current_score" /\ answer.pc = "session"
    /\ answer' = Running("done",
                         OverallFrom(engine, answer.result.focus, answer.result.engagement,
                                     answer.result.stability, answer.result.fatigue,
                                     CalculateSessionMetrics(frames_history)))
    /\ UNCHANGED <<engine, frames_history>>

NextRace ==
    \/ ScoringStep(WorkerAppend)
    \/ ScoringStep(TimerStart)
    \/ ScoringStep(TimerFocus)
    \/ ScoringStep(TimerEngagement)
    \/ ScoringStep(TimerStability)
    \/ ScoringStep(TimerFatigue)
    \/ ScoringStep(TimerSession)

SpecRace == Init /\ [][NextRace]_vars

InitIoU ==
    /\ InitAnalyzer
    /\ InitSession
    /\ iou_a \in { b \in IoUBoxes : WellFormed(b) }
    /\ iou_b \in { b \in IoUBoxes : WellFormed(b) }
    /\ iou_out = NoIoU
    /\ iou_rev = NoIoU

EvalIoU ==
    /\ iou_out = NoIoU
    /\ iou_out' = _iou(iou_a, iou_b)
    /\ iou_rev' = _iou(iou_b, iou_a)
    /\ UNCHANGED <<iou_a, iou_b>>
    /\ UNCHANGED analyzer_vars
    /\ UNCHANGED session_vars

NextIoU == EvalIoU

SpecIoU == InitIoU /\ [][NextIoU]_vars

-----------------------------------------------------------------------------
(* Properties *)

\* the eyes went from both closed to not both closed on this update
Reopened(u) == u.pre.prev_eyes_closed /\ ~EyesClosed(u.det)

\* the mouth went from open to not open on this update
MouthClosed(u) == u.pre.prev_mouth_open /\ ~u.det.mouth_open

BlinkCounted(u) == u.post.blink_count = u.pre.blink_count + 1

YawnCounted(u) == u.post.yawn_count = u.pre.yawn_count + 1

\* the track as the previous update of it left it: by an earlier detection of
\* the same call, or else by the calls before
LeftBy(ups, i, sts) ==
    IF \E j \in 1..(i - 1) : ups[j].sid = ups[i].sid
    THEN ups[CHOOSE j \in 1..(i - 1) :
                /\ ups[j].sid = ups[i].sid
                /\ \A k \in (j + 1)..(i - 1) : ups[k].sid # ups[i].sid].post
    ELSE sts[ups[i].sid]

CountersStep(prev, post) ==
    /\ post.blink_count - prev.blink_count \in {0, 1}
    /\ post.yawn_count - prev.yawn_count \in {0, 1}

\* C1: from one update of a track to the next, blink_count and yawn_count
\* each change by 0 or +1, and no call lowers a live track's counters.
C1_CountersNeverDecrease ==
    [][ /\ \A i \in DOMAIN updates' :
              IF updates'[i].isNew
              THEN updates'[i].post.blink_count = 0 /\ updates'[i].post.yawn_count = 0
              ELSE CountersStep(LeftBy(updates', i, states), updates'[i].post)
        /\ \A sid \in DOMAIN states \cap DOMAIN states' :
              /\ states'[sid].blink_count >= states[sid].blink_count
              /\ states'[sid].yawn_count >= states[sid].yawn_count ]_vars

\* a track that has counted a blink counts a yawn
C1_Witness ==
    \E i \in DOMAIN updates :
        /\ YawnCounted(updates[i])
        /\ updates[i].post.blink_count >= 1
        /\ updates[i].sid \in DOMAIN states

\* C2: when a matched track's eyes reopen, blink_count rises by exactly 1 and
\* last_blink_ts becomes now iff 0.03 <= now - blink_start_ts <= 0.7, an
\* endpoint was attentive and now - last_blink_ts > 0.2; on every other
\* update blink_count and last_blink_ts stay as they were.
C2_BlinkCountedIff ==
    \A i \in DOMAIN updates :
        LET u == updates[i]
            now == u.now_ts
        IN  IF /\ Reopened(u)
               /\ 3 <= now - u.pre.blink_start_ts
               /\ now - u.pre.blink_start_ts <= 70
               /\ (u.pre.blink_started_attention = "attentive" \/ u.attention = "attentive")
               /\ now - u.pre.last_blink_ts > 20
            THEN BlinkCounted(u) /\ u.post.last_blink_ts = now
            ELSE /\ u.post.blink_count = u.pre.blink_count
                 /\ u.post.last_blink_ts = u.pre.last_blink_ts

\* a second blink is counted
C2_Witness ==
    \E i \in DOMAIN updates :
        /\ Reopened(updates[i])
        /\ BlinkCounted(updates[i])
        /\ updates[i].pre.blink_count = 1

C4_FrameTimestampsApart ==
    \A i \in DOMAIN updates :
        LET u == updates[i]
        IN  /\ (BlinkCounted(u) /\ u.prev_log.blink_frame # NoneTs)
                  => u.timestamp - u.prev_log.blink_frame > 20
            /\ (YawnCounted(u) /\ u.prev_log.yawn_frame # NoneTs)
                  => u.timestamp - u.prev_log.yawn_frame > 50

\* C4, amended: the clock readings (now_ts) at which two blinks (yawns) of a
\* track are counted differ by more than 0.2 s (0.5 s); a reopening evaluated
\* within that window of the last counted event is not counted.
C4_CountedReadingsApart ==
    \A i \in DOMAIN updates :
        LET u == updates[i]
        IN  /\ (BlinkCounted(u) /\ u.prev_log.blink_now # NoneTs)
                  => u.now_ts - u.prev_log.blink_now > 20
            /\ (YawnCounted(u) /\ u.prev_log.yawn_now # NoneTs)
                  => u.now_ts - u.prev_log.yawn_now > 50

\* a second blink and a second yawn are counted on one update
C4_Witness ==
    \E i \in DOMAIN updates :
        /\ BlinkCounted(updates[i])
        /\ updates[i].prev_log.blink_now # NoneTs
        /\ YawnCounted(updates[i])
        /\ updates[i].prev_log.yawn_now # NoneTs

\* C5: a closure that lasted longer than 0.7 s (a mouth opening longer than
\* 3.0 s) when it ends is not counted, whatever the attention at its ends and
\* the time since the last counted event.
C5_TooLongNeverCounted ==
    \A i \in DOMAIN updates :
        LET u == updates[i]
        IN  /\ (Reopened(u) /\ u.now_ts - u.pre.blink_start_ts > 70)
                  => u.post.blink_count = u.pre.blink_count
            /\ (MouthClosed(u) /\ u.now_ts - u.pre.yawn_start_ts > 300)
                  => u.post.yawn_count = u.pre.yawn_count

\* an overlong closure and an overlong mouth opening end on one attentive
\* update, outside both refractory windows
C5_Witness ==
    \E i \in DOMAIN updates :
        LET u == updates[i]
        IN  /\ Reopened(u) /\ u.now_ts - u.pre.blink_start_ts > 70
            /\ MouthClosed(u) /\ u.now_ts - u.pre.yawn_start_ts > 300
            /\ u.attention = "attentive"
            /\ u.now_ts - u.pre.last_blink_ts > 20
            /\ u.now_ts - u.pre.last_yawn_ts > 50

\* C6: for a track whose raw pose was forward on every update, eyes that
\* reopen 0.10 s after the first closed frame, with no blink counted in the
\* 0.2 s before, raise blink_count by exactly 1.
C6_ForwardBlinkCounted ==
    \A i \in DOMAIN updates :
        LET u == updates[i]
        IN  ( /\ u.prev_log.always_forward
              /\ RawForward(u.det.pose)
              /\ Reopened(u)
              /\ u.now_ts - u.pre.blink_start_ts = 10
              /\ (u.prev_log.blink_now = NoneTs \/ u.now_ts - u.prev_log.blink_now > 20) )
            => BlinkCounted(u)

\* such a reopening, on a track that has already counted a blink
C6_Witness ==
    \E i \in DOMAIN updates :
        LET u == updates[i]
        IN  /\ u.prev_log.always_forward
            /\ RawForward(u.det.pose)
            /\ Reopened(u)
            /\ u.now_ts - u.pre.blink_start_ts = 10
            /\ u.prev_log.blink_now # NoneTs
            /\ u.now_ts - u.prev_log.blink_now > 20
            /\ BlinkCounted(u)

\* the IoU of a detection's bbox with track k, as the detection found the map
IoUWith(u, k) == _iou(u.det.bbox, u.before[k].bbox)

Over35(i) == 100 * i[1] > 35 * i[2]

\* C7: a detection with a bbox joins the live track of greatest IoU iff that
\* IoU is above 0.35; otherwise a new track gets the next id and the existing
\* tracks keep their bbox and last_seen.
C7_MatchIffAboveThreshold ==
    \A i \in DOMAIN updates :
        LET u == updates[i]
        IN  IF \E k \in DOMAIN u.before : Over35(IoUWith(u, k))
            THEN /\ ~u.isNew
                 /\ u.sid \in DOMAIN u.before
                 /\ \A k \in DOMAIN u.before : ~IoUGreater(IoUWith(u, k), IoUWith(u, u.sid))
                 /\ u.post.id = u.sid
                 /\ u.after[u.sid].bbox = u.det.bbox
                 /\ u.after[u.sid].last_seen = u.timestamp
                 /\ DOMAIN u.after = DOMAIN u.before
            ELSE /\ u.isNew
                 /\ u.sid = u.next_id_before
                 /\ u.sid \notin DOMAIN u.before
                 /\ DOMAIN u.after = DOMAIN u.before \cup {u.sid}
                 /\ \A k \in DOMAIN u.before :
                       /\ u.after[k].bbox = u.before[k].bbox
                       /\ u.after[k].last_seen = u.before[k].last_seen

\* a detection whose greatest IoU is exactly 0.35 starts a new track beside the old one
C7_Witness ==
    \E i \in DOMAIN updates :
        LET u == updates[i]
        IN  /\ u.isNew
            /\ \E k \in DOMAIN u.before :
                  100 * IoUWith(u, k)[1] = 35 * IoUWith(u, k)[2]

Area(b) == (b[3] - b[1]) * (b[4] - b[2])

Disjoint(a, b) == a[3] <= b[1] \/ b[3] <= a[1] \/ a[4] <= b[2] \/ b[4] <= a[2]

\* C8: IoU(a, a) = 1 for a of positive area; IoU(a, b) = 0 for disjoint a, b
\* or when either has zero area; IoU(a, b) = IoU(b, a); 0 <= IoU(a, b) <= 1.
C8_IoUAlgebra ==
    iou_out # NoIoU =>
        /\ iou_out[2] > 0
        /\ 0 <= iou_out[1] /\ iou_out[1] <= iou_out[2]
        /\ (iou_a = iou_b /\ Area(iou_a) > 0) => iou_out[1] = iou_out[2]
        /\ (Disjoint(iou_a, iou_b) \/ Area(iou_a) = 0 \/ Area(iou_b) = 0) => iou_out[1] = 0
        /\ iou_out[1] * iou_rev[2] = iou_rev[1] * iou_out[2]

\* two different boxes that overlap in part
C8_Witness ==
    /\ iou_out # NoIoU
    /\ 0 < iou_out[1]
    /\ iou_out[1] < iou_out[2]
    /\ iou_a # iou_b

\* C9 as claimed: a detection that arrives more than 2.0 s after a track's
\* last_seen, with IoU above 0.35 to its stored bbox, is not matched to that
\* track: it starts a track with zeroed counters.
C9_StaleTrackNeverMatched ==
    \A i \in DOMAIN updates :
        LET u == updates[i]
        IN  \A k \in DOMAIN u.before :
                ( /\ u.timestamp - u.before[k].last_seen > 200
                  /\ Over35(IoUWith(u, k)) )
                => ( /\ u.sid # k
                     /\ u.pre.blink_count = 0
                     /\ u.pre.yawn_count = 0 )

\* C10 as claimed: after every analyze_frame call no track's last_seen is
\* more than 2.0 s behind the frame's timestamp.
C10_NoStaleTrackAfterFrame ==
    \A sid \in DOMAIN states : out.timestamp - states[sid].last_seen <= 200


\* C11: every face's attention is one of attentive, looking_away and
\* eyes_closed: looking_away unless |ema_yaw| < 15 and |ema_pitch| < 15 (an
\* angle equal to the threshold is looking_away), else eyes_closed if neither
\* eye is open, else attentive.
C11_AttentionByPriority ==
    /\ Len(out.faces) = Len(updates)
    /\ \A i \in DOMAIN updates :
          LET u == updates[i]
              forward == /\ -15000 < u.post.ema_yaw /\ u.post.ema_yaw < 15000
                         /\ -15000 < u.post.ema_pitch /\ u.post.ema_pitch < 15000
          IN  /\ out.faces[i].attention \in {"attentive", "looking_away", "eyes_closed"}
              /\ out.faces[i].attention = u.attention
              /\ out.faces[i].attention =
                    IF ~forward THEN "looking_away"
                    ELSE IF (~u.det.left_open) /\ (~u.det.right_open) THEN "eyes_closed"
                    ELSE "attentive"

\* a blended yaw exactly at the threshold as the eyes reopen: looking_away
C11_Witness ==
    \E i \in DOMAIN updates :
        /\ ~updates[i].isNew
        /\ updates[i].post.ema_yaw = 15000
        /\ updates[i].post.ema_pitch = 0
        /\ updates[i].det.left_open /\ updates[i].det.right_open
        /\ out.faces[i].attention = "looking_away"
        /\ updates[i].pre.prev_eyes_closed


\* the faces of a record, as a set
Members(faces) == { faces[i] : i \in DOMAIN faces }

PrimaryIsLargest(rec) ==
    /\ (rec.primary = NoFace) <=> (rec.faces = <<>>)
    /\ rec.primary # NoFace =>
          /\ rec.primary \in Members(rec.faces)
          /\ \A f \in Members(rec.faces) : BoxArea(f.bbox) <= BoxArea(rec.primary.bbox)

PrimaryFrames(h) == { i \in DOMAIN h : h[i].primary # NoFace }

AttentiveFrames(h) == { i \in PrimaryFrames(h) : h[i].primary.attention = "ATTENTIVE" }

AskAgain ==
    CASE answer.query = "get_current_score" -> CalculateOverallScore(engine, frames_history)
      [] answer.query = "get_session_metrics" -> CalculateSessionMetrics(frames_history)
      [] answer.query = "get_insights" ->
            [ productivity_score |-> CalculateOverallScore(engine, frames_history),
              session_metrics |-> CalculateSessionMetrics(frames_history) ]
      [] answer.query = "calculate_focus_score" -> CalculateFocusScore(frames_history)
      [] answer.query = "calculate_engagement_score" -> CalculateEngagementScore(frames_history)
      [] answer.query = "calculate_stability_score" -> CalculateStabilityScore(frames_history)
      [] answer.query = "calculate_fatigue_score" -> CalculateFatigueScore(frames_history)

FacadeQueries == {"get_current_score", "get_session_metrics", "get_insights"}

ComponentQueries ==
    { "calculate_focus_score", "calculate_engagement_score",
      "calculate_stability_score", "calculate_fatigue_score" }

\* no frame of the history has a primary face; the empty history included
Degenerate(frames) == FaceFrames(frames) = <<>>

\* C15: on an empty history and on a history in which no frame has a primary
\* face, each component score function returns a metrics dict with a field
\* that flags the degenerate input
C15_DegenerateInputFlagged ==
    (answer # NoAnswer /\ answer.query \in ComponentQueries /\ Degenerate(answer.on))
        => DOMAIN answer.result.metrics # {}


\* the four scores of a ProductivityScore
ScoresOf(score) ==
    << score.overall_score, score.focus_score, score.engagement_score, score.stability_score >>

\* yawn counts written over those of a history's faces
YawnVariants == {0, 1, 7}

SetYawns(frame, n) ==
    IF frame.primary = NoFace THEN frame
    ELSE FrameOf([frame.primary EXCEPT !.yawn_count = n], frame.timestamp)

WithYawns(frames, ys) == [i \in DOMAIN frames |-> SetYawns(frames[i], ys[i])]

\* the weights are the constructor's arguments divided by their sum
Renormalised(eng) ==
    /\ QAdd(QAdd(eng.focus_weight, eng.engagement_weight), eng.stability_weight) = Q(1, 1)
    /\ \E a \in EngineArgs :
          /\ eng.focus_weight = Q(a[1], a[1] + a[2] + a[3])
          /\ eng.engagement_weight = Q(a[2], a[1] + a[2] + a[3])
          /\ eng.stability_weight = Q(a[3], a[1] + a[2] + a[3])

WeightedSum(eng, score) ==
    QAdd(QAdd(QMul(eng.focus_weight, score.focus_score),
              QMul(eng.engagement_weight, score.engagement_score)),
         QMul(eng.stability_weight, score.stability_score))

\* C16: the overall score is focus_weight x focus + engagement_weight x
\* engagement + stability_weight x stability with weights that sum to 1, and
\* a history that differs only in the yawn counts of its faces has the same
\* overall, focus, engagement and stability scores
C16_FatigueNotBlended ==
    (answer # NoAnswer /\ answer.query = "get_current_score") =>
        /\ Renormalised(engine)
        /\ answer.result.overall_score = Clamp100(WeightedSum(engine, answer.result))
        /\ answer.on # <<>> =>
              /\ answer.result.focus_score = CalculateFocusScore(answer.on).score
              /\ answer.result.engagement_score = CalculateEngagementScore(answer.on).score
              /\ answer.result.stability_score = CalculateStabilityScore(answer.on).score
        /\ \A ys \in [DOMAIN answer.on -> YawnVariants] :
              ScoresOf(CalculateOverallScore(engine, WithYawns(answer.on, ys)))
                  = ScoresOf(answer.result)

C16_Witness ==
    /\ answer # NoAnswer
    /\ answer.query = "get_current_score"
    /\ Len(answer.on) = MaxScoreFrames
    /\ \E i \in DOMAIN answer.on :
          answer.on[i].primary # NoFace /\ answer.on[i].primary.yawn_count = 1
    /\ answer.result.components.fatigue # Q(0, 1)
    /\ answer.result.overall_score \notin {Q(0, 1), Q(100, 1)}


\* the update is the last of a run of n frames with both eyes closed on a
\* track that was updated before the run, that is, with eyes open
HeldClosedAfterOpen(u, n) ==
    /\ ~u.isNew
    /\ EyesClosed(u.det)
    /\ u.post.closed_frames = n
    /\ frame_counter > n

\* C17: once a forward-facing face, after a frame with eyes open, has had
\* both eyes closed on blink_consec_frames + 1 frames and on one frame more,
\* the blink_count reported for it is at least 1
C17_HeldClosureReportsBlink ==
    \A i \in DOMAIN updates :
        ( /\ updates[i].prev_log.always_forward
          /\ RawForward(updates[i].det.pose)
          /\ HeldClosedAfterOpen(updates[i], blink_consec_frames + 2) )
        => out.faces[i].blink_count >= 1


HasBox(det) == det.bbox # NoBox

\* the detections of the last frame that carry a bbox
WellFormedDetections == SelectSeq(detections, HasBox)

\* analyze_frame returned a dict for the last frame, with one face entry for
\* each detection that carries a bbox
Returned ==
    /\ out.frame_id = frame_counter
    /\ Len(out.faces) = Len(WellFormedDetections)
    /\ Len(updates) = Len(WellFormedDetections)

\* the face entry shows the eyes and the mouth as the landmarks do
ShowsLandmarks(face, landmarks) ==
    /\ face.eyes_open_left = landmarks.left_open
    /\ face.eyes_open_right = landmarks.right_open
    /\ face.mouth_open = landmarks.mouth_open

\* the face entry of a detection whose estimator raised
FallbackEntry(u, face) ==
    /\ face.bbox = u.det.bbox
    /\ face.raw_pose = (IF u.pre.last_pose # NoPose THEN u.pre.last_pose ELSE <<0, 0, 0>>)
    /\ u.pre.last_pose = NoPose => (face.yaw = 0 /\ face.pitch = 0 /\ face.roll = 0)
    /\ IF u.pre.last_landmarks # NoLandmarks THEN ShowsLandmarks(face, u.pre.last_landmarks)
       ELSE face.eyes_open_left /\ face.eyes_open_right
    /\ u.post.last_pose = u.pre.last_pose
    /\ u.post.last_landmarks = u.pre.last_landmarks

\* C18: when the estimator raises on a detection, analyze_frame returns and
\* the detection has its face entry, with the track's cached pose and what
\* its cached landmarks show, or with a zero pose and both eyes open when
\* the track has no cache
C18_EstimatorFailureFallsBack ==
    (frame_counter > 0) =>
        /\ Returned
        /\ \A i \in DOMAIN updates :
              updates[i].det.estimator = "raises" => FallbackEntry(updates[i], out.faces[i])

\* the estimator raises on a track that has cached a turned pose and closed eyes
C18_Witness ==
    \E i \in DOMAIN updates :
        /\ updates[i].det.estimator = "raises"
        /\ updates[i].pre.last_pose = Away
        /\ updates[i].pre.last_landmarks # NoLandmarks
        /\ ~updates[i].pre.last_landmarks.left_open
        /\ out.faces[i].raw_pose = Away
        /\ ~out.faces[i].eyes_open_left


\* the loop of analyze_frame run on dets from the present state of the analyzer
LoopOn(dets, timestamp, frame_id) ==
    ProcessAll([ sts |-> states, next_id |-> next_state_id, clock |-> timestamp,
                 log |-> track_log, faces |-> <<>>, ups |-> <<>>, raised |-> FALSE ],
               dets, timestamp, frame_id)

\* the step is a call of analyze_frame whose detector found something
LoopStep == frame_counter' = frame_counter + 1 /\ detections' # <<>>

\* the analyzer and the returned faces after the step are those of the loop result r
StepYields(r) ==
    /\ out'.frame_id = frame_counter'
    /\ out'.faces = r.faces
    /\ updates' = r.ups
    /\ states' = Prune(r.sts, out'.timestamp)
    /\ next_state_id' = r.next_id

\* C19: a detection without a bbox creates no track, updates no track and
\* adds no face entry, and the frame's other detections are associated,
\* stepped and emitted as they are when the frame holds only them
C19_MalformedDetectionSkipped ==
    [][ LoopStep =>
            /\ out'.face_count = Len(detections')
            /\ StepYields(LoopOn(SelectSeq(detections', HasBox), out'.timestamp, frame_counter')) ]_vars

\* a frame with a detection without a bbox ahead of a face that an existing
\* track matches
C19_Witness ==
    /\ Len(detections) = 2
    /\ detections[1].bbox = NoBox
    /\ out.face_count = 2
    /\ Len(out.faces) = 1
    /\ Len(updates) = 1
    /\ ~updates[1].isNew
    /\ updates[1].post.blink_count = 1
    /\ DOMAIN states = {0}


\* the same detections with every sink write succeeding
AllSinksOk(dets) == [i \in DOMAIN dets |-> [dets[i] EXCEPT !.sinks_ok = TRUE]]

\* analyze_frame returned, and the faces returned and the tracks, flags,
\* timestamps and counters after the step are those of the loop result r
SameOutcome(r) ==
    /\ out'.frame_id = frame_counter'
    /\ out'.face_count = Len(detections')
    /\ out'.faces = r.faces
    /\ states' = Prune(r.sts, out'.timestamp)
    /\ next_state_id' = r.next_id
    /\ Len(updates') = Len(r.ups)
    /\ \A i \in DOMAIN r.ups : updates'[i].post = r.ups[i].post

LastFrame == frames_history[Len(frames_history)]

\* the history's last frame was converted from the record held
Converted == record # NoRecord /\ frames_history # <<>>

\* the frames of a history whose primary face has the given attention
WithAttention(frames, state) ==
    { i \in DOMAIN frames : frames[i].primary # NoFace /\ frames[i].primary.attention = state }

\* frames whose primary face is UNKNOWN count as face frames that are
\* neither attentive nor looking away, in the focus, fatigue and session figures
UnknownCountedApart(score, frames) ==
    /\ score.components.focus_metrics.unknown_frames = Cardinality(WithAttention(frames, "UNKNOWN"))
    /\ score.components.focus_metrics.attentive_frames = Cardinality(WithAttention(frames, "ATTENTIVE"))
    /\ score.components.focus_metrics.looking_away_frames
           = Cardinality(WithAttention(frames, "LOOKING_AWAY"))
    /\ score.components.focus_metrics.total_frames_with_face
           = Cardinality(WithAttention(frames, "UNKNOWN")) + Cardinality(WithAttention(frames, "ATTENTIVE"))
               + Cardinality(WithAttention(frames, "LOOKING_AWAY"))
    /\ score.focus_score
           = Q(100 * Cardinality(WithAttention(frames, "ATTENTIVE")),
               score.components.focus_metrics.total_frames_with_face)
    /\ score.components.fatigue_metrics.looking_away_ratio
           = Q(Cardinality(WithAttention(frames, "LOOKING_AWAY")),
               score.components.focus_metrics.total_frames_with_face)

EyeSeen(landmarks, side) ==
    IF landmarks.n_pts >= 106 THEN (IF side = "left_eye" THEN landmarks.left ELSE landmarks.right)
    ELSE ZeroEye

\* open iff the EAR reported is at or above the threshold, and EAR 0 for an
\* eye whose corners p1 and p4 coincide
EarRule(eye, seen, threshold) ==
    /\ eye.open <=> (eye.ear[1] * 100 >= threshold * eye.ear[2])
    /\ seen[1] = seen[4] => eye.ear = <<0, 1>>

\* C22: an eye is marked open iff its EAR is greater than or equal to the
\* configured threshold, an EAR of exactly 0.20 under threshold 0.20 being
\* open, and the EAR is 0 whenever the horizontal eye distance is 0
C22_OpenIffEarAtLeastThreshold ==
    (answer # NoAnswer /\ answer.query = "analyze") =>
        /\ EarRule(answer.result.left_eye, EyeSeen(answer.on.landmarks, "left_eye"),
                   answer.on.threshold)
        /\ EarRule(answer.result.right_eye, EyeSeen(answer.on.landmarks, "right_eye"),
                   answer.on.threshold)

\* a left eye of EAR exactly 0.20 under threshold 0.20, open
C22_Witness ==
    /\ answer # NoAnswer
    /\ answer.query = "analyze"
    /\ answer.on.threshold = 20
    /\ answer.result.left_eye.ear = <<1, 5>>
    /\ answer.result.left_eye.open
    /\ ~answer.result.right_eye.open


\* the stored EMA of a track, and a raw pose, as millidegree triples
EmaOf(s) == <<s.ema_yaw, s.ema_pitch, s.ema_roll>>

RawOf(det) == <<1000 * det.pose[1], 1000 * det.pose[2], 1000 * det.pose[3]>>

\* smoothed = 0.4 raw + 0.6 previous, on each axis
Blended(post, raw, pre) == \A k \in 1..3 : 10 * post[k] = 4 * raw[k] + 6 * pre[k]

\* C23: the smoothed yaw, pitch and roll equal the raw values on a track's
\* first update and whenever the stored EMA is all zero, and are
\* 0.4 x raw + 0.6 x previous otherwise; a new track whose first raw yaw is at
\* or beyond the threshold is looking_away on that frame
C23_EmaInitThenBlend ==
    \A i \in DOMAIN updates :
        LET u == updates[i]
        IN  /\ (u.isNew \/ EmaOf(u.pre) = <<0, 0, 0>>) => EmaOf(u.post) = RawOf(u.det)
            /\ ~(u.isNew \/ EmaOf(u.pre) = <<0, 0, 0>>) =>
                  Blended(EmaOf(u.post), RawOf(u.det), EmaOf(u.pre))
            /\ (u.isNew /\ (u.det.pose[1] >= 15 \/ u.det.pose[1] <= -15)) =>
                  /\ u.attention = "looking_away"
                  /\ out.faces[i].attention = "looking_away"

\* a track first seen turned away by 40 degrees, then blended twice: with a
\* pose of 14 degrees to 29.6, with a forward pose to 17.76
C23_Witness ==
    \E i \in DOMAIN updates :
        /\ ~updates[i].isNew
        /\ updates[i].pre.ema_yaw = 29600
        /\ updates[i].post.ema_yaw = 17760
        /\ updates[i].det.pose = Forward
        /\ out.faces[i].attention = "looking_away"


\* one detector of a track, as the fields the two machines share: the
\* signal is CLOSED when both eyes are closed (blink) or the mouth is open
\* (yawn)
BlinkDetector(s) ==
    [ was_closed |-> s.prev_eyes_closed, start_ts |-> s.blink_start_ts,
      started_attention |-> s.blink_started_attention, pending |-> s.pending_blink,
      frames |-> s.closed_frames, count |-> s.blink_count, last_ts |-> s.last_blink_ts ]

YawnDetector(s) ==
    [ was_closed |-> s.prev_mouth_open, start_ts |-> s.yawn_start_ts,
      started_attention |-> s.yawn_started_attention, pending |-> s.pending_yawn,
      frames |-> s.mouth_open_frames, count |-> s.yawn_count, last_ts |-> s.last_yawn_ts ]

SignalClosed(u, machine) ==
    IF machine = "blink" THEN (~u.det.left_open) /\ (~u.det.right_open) ELSE u.det.mouth_open

DetectorOf(s, machine) == IF machine = "blink" THEN BlinkDetector(s) ELSE YawnDetector(s)

MaxDurationOf(machine) == IF machine = "blink" THEN 70 ELSE 300

Machines == {"blink", "yawn"}

\* OPEN -> CLOSED
ClosingRule(pre, post, attention, now_ts) ==
    /\ post.start_ts = now_ts
    /\ post.started_attention = attention
    /\ post.pending = (attention = "attentive")

\* CLOSED -> CLOSED
HoldingRule(pre, post, attention, now_ts, max_duration) ==
    /\ post.frames = pre.frames + 1
    /\ (attention # "attentive" \/ now_ts - pre.start_ts > max_duration) => ~post.pending
    /\ post.start_ts = pre.start_ts
    /\ post.started_attention = pre.started_attention

\* C24: at an OPEN->CLOSED transition the detector records start_ts = now
\* and started_attention = the current attention and sets pending exactly
\* when that attention is attentive; on every later update while the signal
\* stays CLOSED the closed-frame counter grows by 1, pending is cleared if
\* the attention is not attentive or now - start_ts exceeds the maximum
\* duration, and start_ts and started_attention stay as they were
C24_ClosingAndHolding ==
    \A i \in DOMAIN updates : \A m \in Machines :
        LET u == updates[i]
            pre == DetectorOf(u.pre, m)
            post == DetectorOf(u.post, m)
        IN  /\ ((~pre.was_closed) /\ SignalClosed(u, m)) =>
                  ClosingRule(pre, post, u.attention, u.now_ts)
            /\ (pre.was_closed /\ SignalClosed(u, m)) =>
                  HoldingRule(pre, post, u.attention, u.now_ts, MaxDurationOf(m))

\* a mouth opened while attentive and still open, attentive, 3.01 s later:
\* pending cleared, start kept
C24_Witness ==
    \E i \in DOMAIN updates :
        /\ updates[i].pre.prev_mouth_open
        /\ updates[i].det.mouth_open
        /\ updates[i].pre.pending_yawn
        /\ updates[i].attention = "attentive"
        /\ updates[i].now_ts - updates[i].pre.yawn_start_ts = 301
        /\ ~updates[i].post.pending_yawn
        /\ updates[i].post.yawn_start_ts = updates[i].pre.yawn_start_ts
        /\ updates[i].post.mouth_open_frames = 2


\* CLOSED -> OPEN
ReopenedRule(post) ==
    /\ post.start_ts = -1
    /\ post.started_attention = "None"
    /\ ~post.pending
    /\ post.frames = 0

\* OPEN -> OPEN
IdleRule(post, attention) ==
    /\ post.frames = 0
    /\ attention # "attentive" => ~post.pending

\* C25: after every CLOSED->OPEN transition, counted or not, start_ts and
\* started_attention are None, pending is false and the closed-frame counter
\* is 0; on every update where the signal stays OPEN the counter is 0 and
\* pending is false if the attention is not attentive
C25_ReopeningResets ==
    \A i \in DOMAIN updates : \A m \in Machines :
        LET u == updates[i]
            pre == DetectorOf(u.pre, m)
            post == DetectorOf(u.post, m)
        IN  /\ (pre.was_closed /\ ~SignalClosed(u, m)) => ReopenedRule(post)
            /\ ((~pre.was_closed) /\ ~SignalClosed(u, m)) => IdleRule(post, u.attention)

\* a mouth closing 3.01 s after it opened with its pending flag still set,
\* not counted, on a track whose eyes stay open while it looks away
C25_Witness ==
    \E i \in DOMAIN updates :
        /\ updates[i].pre.prev_mouth_open
        /\ ~updates[i].det.mouth_open
        /\ updates[i].pre.pending_yawn
        /\ updates[i].post.yawn_count = updates[i].pre.yawn_count
        /\ updates[i].now_ts - updates[i].pre.yawn_start_ts = 301
        /\ updates[i].post.yawn_start_ts = -1
        /\ ~updates[i].pre.prev_eyes_closed
        /\ updates[i].det.left_open
        /\ updates[i].attention = "looking_away"
        /\ updates[i].post.closed_frames = 0


\* a reopening after at least one update spent CLOSED, of an event that set
\* its pending flag at the start and lost it to a non-attentive update
ClearedWhileClosed(pre, now_ts, max_duration) ==
    /\ pre.was_closed
    /\ pre.frames >= 2
    /\ pre.started_attention = "attentive"
    /\ ~pre.pending
    /\ now_ts - pre.start_ts <= max_duration

\* C26: if attention becomes non-attentive on some update while the eyes stay
\* closed (the mouth stays open), so that the pending flag is cleared, the
\* eventual reopening (closing) does not increment blink_count (yawn_count)
C26_ClearedPendingNotCounted ==
    \A i \in DOMAIN updates : \A m \in Machines :
        LET u == updates[i]
            pre == DetectorOf(u.pre, m)
            post == DetectorOf(u.post, m)
        IN  (ClearedWhileClosed(pre, u.now_ts, MaxDurationOf(m)) /\ ~SignalClosed(u, m)) =>
                post.count = pre.count


\* C27: an event whose start and end are both non-attentive is never
\* counted: if the attention recorded at the OPEN->CLOSED transition and the
\* attention at the CLOSED->OPEN transition both differ from attentive, the
\* counter is unchanged, whatever the duration and the time since the last
\* counted event
C27_NoAttentiveEndpointNotCounted ==
    \A i \in DOMAIN updates : \A m \in Machines :
        LET u == updates[i]
            pre == DetectorOf(u.pre, m)
            post == DetectorOf(u.post, m)
        IN  ( /\ pre.was_closed
              /\ ~SignalClosed(u, m)
              /\ pre.started_attention # "attentive"
              /\ u.attention # "attentive" ) => post.count = pre.count

\* a mouth opened while looking away and closed 0.2 s later, still looking
\* away, with no yawn counted before: in the duration bounds and outside the
\* refractory window, not counted
C27_Witness ==
    \E i \in DOMAIN updates :
        /\ updates[i].pre.prev_mouth_open
        /\ ~updates[i].det.mouth_open
        /\ updates[i].pre.yawn_started_attention = "looking_away"
        /\ updates[i].attention = "looking_away"
        /\ updates[i].now_ts - updates[i].pre.yawn_start_ts = 20
        /\ updates[i].pre.last_yawn_ts = 0
        /\ updates[i].post.yawn_count = 0
        /\ updates[i].pre.prev_eyes_closed
        /\ updates[i].pre.blink_started_attention = "looking_away"
        /\ updates[i].post.blink_count = updates[i].pre.blink_count


\* C28: a track is mutated at most once per frame: within one analyze_frame
\* call no two distinct detections are associated with the same track id,
\* a track created earlier in the same call included
C28_TrackSteppedOncePerFrame ==
    \A i \in DOMAIN updates : \A j \in DOMAIN updates :
        i # j => updates[i].sid # updates[j].sid


\* C29: the primary face selected inside the analyzer (return_all=False,
\* _select_primary) and the primary face recomputed by
\* _prepare_scoring_output are the same face for every list of faces, ties in
\* area and zero or negative bbox areas included
C29_SamePrimaryBothLayers ==
    (answer # NoAnswer /\ answer.query = "primary") =>
        answer.result.analyzer = answer.result.pipeline


\* window k of a history: the positions 30k+1 .. 30k+30 that exist, those of
\* them with a primary face, and those of these that are attentive
InWindow(frames, k) == { i \in DOMAIN frames : (i - 1) \div 30 = k }

FacesIn(frames, k) == { i \in InWindow(frames, k) : frames[i].primary # NoFace }

AttentiveIn(frames, k) ==
    { i \in FacesIn(frames, k) : frames[i].primary.attention = "ATTENTIVE" }

\* the windows that have a ratio, and the place of window k among them
Rated(frames) == { k \in 0..((Len(frames) - 1) \div 30) : FacesIn(frames, k) # {} }

PlaceOf(frames, k) == Cardinality({ j \in Rated(frames) : j <= k })

RatiosAsClaimed(frames, focus_windows) ==
    /\ Len(focus_windows) = Cardinality(Rated(frames))
    /\ \A k \in Rated(frames) :
          focus_windows[PlaceOf(frames, k)][1] * Cardinality(FacesIn(frames, k))
              = Cardinality(AttentiveIn(frames, k)) * focus_windows[PlaceOf(frames, k)][2]

\* C30: analyze_focus_patterns reports insufficient data for every history
\* of fewer than 10 frames; otherwise the history is cut into consecutive
\* windows of 30 frames, the last possibly shorter, and the ratio of each
\* window is its ATTENTIVE frames over its frames with a primary face (a
\* window without a primary face has no ratio; with no ratio at all the
\* report is insufficient data)
C30_WindowsOfThirty ==
    (answer # NoAnswer /\ answer.query = "analyze_focus_patterns") =>
        IF Len(answer.on) < 10 \/ Rated(answer.on) = {}
        THEN answer.result = [insufficient_data |-> TRUE]
        ELSE RatiosAsClaimed(answer.on, answer.result.focus_windows)

\* 41 frames: 9 attentive, 1 looking away, 31 without a face; the first
\* window has the ratio 9/10, the second, 11 frames long, has none
C30_Witness ==
    /\ answer # NoAnswer
    /\ answer.query = "analyze_focus_patterns"
    /\ Len(answer.on) = 41
    /\ answer.on[10].primary = [attention |-> "LOOKING_AWAY"]
    /\ answer.on[11].primary = NoFace
    /\ answer.result.focus_windows = << <<9, 10>> >>


\* the report of the pattern analysis when it holds window ratios
Reported ==
    /\ answer # NoAnswer
    /\ answer.query = "analyze_focus_patterns"
    /\ answer.result # [insufficient_data |-> TRUE]

\* the mean of the ratios at the places lo..hi, 0 for an empty range
MeanOfPlaces(ratios, lo, hi) ==
    IF hi < lo THEN <<0, 1>>
    ELSE QDiv(QSum([i \in 1..(hi - lo + 1) |-> ratios[lo + i - 1]]), <<hi - lo + 1, 1>>)

TrendAsClaimed(ratios) ==
    QSub(MeanOfPlaces(ratios, Len(ratios) \div 2 + 1, Len(ratios)),
         MeanOfPlaces(ratios, 1, Len(ratios) \div 2))

\* C31: for a history with n window ratios, focus_trend is the mean of the
\* ratios of windows floor(n/2) .. n-1 less the mean of the ratios of
\* windows 0 .. floor(n/2)-1 (0 for no window), and fatigue_detected holds
\* exactly when focus_trend < -0.1
C31_TrendOfHalves ==
    Reported =>
        /\ answer.result.focus_trend = TrendAsClaimed(answer.result.focus_windows)
        /\ answer.result.fatigue_detected <=>
              (10 * answer.result.focus_trend[1] < -answer.result.focus_trend[2])

\* 40 frames, 39 attentive then 1 looking away: the ratios 1 and 9/10, a
\* trend of exactly -0.1, no fatigue
C31_Witness ==
    /\ Reported
    /\ answer.result.focus_windows = << <<1, 1>>, <<9, 10>> >>
    /\ answer.result.focus_trend = <<-1, 10>>
    /\ ~answer.result.fatigue_detected

\* C39: a history with constant focus has no trend: whenever the window
\* ratios are all equal, a single window included, focus_trend is 0 and
\* fatigue_detected is false
C39_ConstantFocusNoTrend ==
    (Reported /\ \A i \in DOMAIN answer.result.focus_windows :
                     answer.result.focus_windows[i] = answer.result.focus_windows[1]) =>
        /\ answer.result.focus_trend = <<0, 1>>
        /\ ~answer.result.fatigue_detected


\* the fatigue level an estimate was asked on, in hundredths, 0 when missing
LevelAsked ==
    IF "fatigue_level" \in DOMAIN answer.on.fatigue_analysis
    THEN answer.on.fatigue_analysis.fatigue_level ELSE 0

\* tier and tier base, in seconds, by the level
TierAsClaimed(f) == IF f > 70 THEN "long" ELSE IF f > 40 THEN "medium" ELSE "pomodoro"

BaseAsClaimed(f) == IF f > 70 THEN 900 ELSE IF f > 40 THEN 1200 ELSE 1500

\* C32: estimate_optimal_break_time selects one tier from the fatigue level
\* f: long if f > 0.7, medium if 0.4 < f <= 0.7, pomodoro if f <= 0.4 or f is
\* missing; the wait is max(0, tier base - session duration) with bases of
\* 15, 20 and 25 minutes; it is never negative and, for a fixed session
\* duration, never larger at a higher fatigue level
C32_BreakTierAndWait ==
    (answer # NoAnswer /\ answer.query = "estimate_optimal_break_time") =>
        /\ answer.result.break_type = TierAsClaimed(LevelAsked)
        /\ answer.result.recommended_break_duration >= 0
        /\ answer.result.recommended_break_duration >= BaseAsClaimed(LevelAsked) - answer.on.session_duration
        /\ answer.result.recommended_break_duration
              \in {0, BaseAsClaimed(LevelAsked) - answer.on.session_duration}
        /\ answer.result.next_break_in_seconds = answer.result.recommended_break_duration
        /\ \A g \in LevelAsked..100 :
              BreakFor(answer.on.session_duration, g).recommended_break_duration
                  <= answer.result.recommended_break_duration

\* a fatigue level of exactly 0.7 after 19 min 59 s: the medium tier, 1 s
\* to wait
C32_Witness ==
    /\ answer # NoAnswer
    /\ answer.query = "estimate_optimal_break_time"
    /\ LevelAsked = 70
    /\ answer.on.session_duration = 1199
    /\ answer.result.break_type = "medium"
    /\ answer.result.recommended_break_duration = 1

\* the tier a feedback string belongs to; 5 is the default affirmation
TierOfFeedback(s) ==
    IF s \in {"fatigued: substantial break", "mild fatigue: stretch"} THEN 1
    ELSE IF s \in {"excellent consistency", "focus fluctuating"} THEN 2
    ELSE IF s \in {"focus improving", "focus declining"} THEN 3
    ELSE IF s \in {"outstanding performance", "productivity low"} THEN 4
    ELSE 5

\* C33: get_personalized_feedback never returns an empty list: at most one
\* string per tier, in the order fatigue, consistency, trend, absolute
\* score; the single default affirmation exactly when no tier fired; no
\* consistency or trend string when the pattern analysis reported
\* insufficient data
C33_FeedbackByTiers ==
    (answer # NoAnswer /\ answer.query = "get_personalized_feedback") =>
        /\ answer.result # <<>>
        /\ \A i \in DOMAIN answer.result : \A j \in DOMAIN answer.result :
              i < j => TierOfFeedback(answer.result[i]) < TierOfFeedback(answer.result[j])
        /\ \A i \in DOMAIN answer.result :
              TierOfFeedback(answer.result[i]) = 5 =>
                  answer.result = <<"productivity steady">>
        /\ answer.on.focus_patterns = [insufficient_data |-> TRUE] =>
              \A i \in DOMAIN answer.result : TierOfFeedback(answer.result[i]) \notin {2, 3}

\* nothing fires on a level of 0.4, a consistency of 0.9, a trend of 0.1 and
\* a score of 85: the default affirmation alone
C33_Witness ==
    /\ answer # NoAnswer
    /\ answer.query = "get_personalized_feedback"
    /\ LevelAsked = 40
    /\ answer.on.focus_patterns = [focus_consistency |-> <<9, 10>>, focus_trend |-> <<1, 10>>]
    /\ answer.on.current_score = 85
    /\ answer.result = <<"productivity steady">>


\* C34: pending_blink is false in every reachable state of every track: the
\* eye-closure signal and the attention category come from the same frame,
\* so the attention at an eye OPEN->CLOSED transition is never attentive,
\* the pending flag is never set and blink_started_attention is never
\* attentive
C34_BlinkNeverPending ==
    /\ \A sid \in DOMAIN states :
          /\ ~states[sid].pending_blink
          /\ states[sid].blink_started_attention # "attentive"
    /\ \A i \in DOMAIN updates :
          /\ ~updates[i].post.pending_blink
          /\ ((~updates[i].pre.prev_eyes_closed) /\ updates[i].post.prev_eyes_closed) =>
                updates[i].attention # "attentive"

\* the eyes of a track looking forward close on the frame after one on
\* which it was attentive (its yawn is pending): the closure starts as
\* eyes_closed, not pending
C34_Witness ==
    \E i \in DOMAIN updates :
        /\ ~updates[i].isNew
        /\ ~updates[i].pre.prev_eyes_closed
        /\ updates[i].post.prev_eyes_closed
        /\ updates[i].pre.pending_yawn
        /\ updates[i].attention = "eyes_closed"
        /\ updates[i].sid \in DOMAIN states
        /\ states[updates[i].sid].blink_start_ts = updates[i].now_ts
        /\ states[updates[i].sid].blink_started_attention = "eyes_closed"
        /\ ~states[updates[i].sid].pending_blink

IdsBelowCounter ==
    \A k \in DOMAIN states : k >= 0 /\ k < next_state_id /\ states[k].id = k

\* the ids a call creates are the old counter, the old counter + 1, ... in
\* the order of the detections, and the counter ends just above them
IdsInCreationOrder ==
    /\ next_state_id' >= next_state_id
    /\ \A k \in DOMAIN states' \ DOMAIN states : k >= next_state_id /\ k < next_state_id'
    /\ \A i \in DOMAIN updates' : \A j \in DOMAIN updates' :
          (i < j /\ updates'[i].isNew /\ updates'[j].isNew) => updates'[i].sid < updates'[j].sid
    /\ Cardinality({ i \in DOMAIN updates' : updates'[i].isNew }) = next_state_id' - next_state_id

\* C36: track ids are allocated 0, 1, 2, ... in creation order: the keys of
\* the track map are distinct, every key is smaller than _next_state_id,
\* each track's id field equals its key, and an id is never used again after
\* its track was pruned
C36_TrackIdsNeverReused ==
    /\ [](next_state_id >= 0 /\ IdsBelowCounter)
    /\ [][IdsInCreationOrder]_vars

\* tracks 0 and 1 were pruned; a face back at the place of track 0 is
\* track 2, the only one
C36_Witness ==
    /\ DOMAIN states = {2}
    /\ next_state_id = 3
    /\ states[2].id = 2
    /\ states[2].bbox = <<0, 0, 10, 10>>
    /\ \E i \in DOMAIN updates : updates[i].isNew /\ updates[i].sid = 2


\* C37: in every record of analyze_frame(return_all=True) and of
\* _prepare_scoring_output, face_count is the number of entries of the faces
\* list, and face_detected holds exactly when the faces list is not empty
C37_FaceCountIsListLength ==
    /\ out.face_count = Len(out.faces)
    /\ record # NoRecord =>
          /\ record.face_count = Len(record.faces)
          /\ record.face_detected <=> (record.faces # <<>>)


\* the cumulative counts of the primary face in the last frame of a history
\* whose frames all show track 0, created on its first frame
LastBlinkCount(frames) == frames[Len(frames)].primary.blink_count

LastYawnCount(frames) == frames[Len(frames)].primary.yawn_count

\* C38: total_blinks of calculate_session_metrics, and total_blinks and
\* total_yawns of calculate_fatigue_score, are the numbers of blinks and
\* yawns counted during the history: for a history whose primary face is a
\* single track, the last frame's cumulative count less the count before the
\* first frame
C38_TotalsAreEventsCounted ==
    (answer # NoAnswer /\ answer.on # <<>>) =>
        /\ answer.query = "get_session_metrics" =>
              answer.result.total_blinks = LastBlinkCount(answer.on)
        /\ answer.query = "calculate_fatigue_score" =>
              /\ answer.result.metrics.total_blinks = LastBlinkCount(answer.on)
              /\ answer.result.metrics.total_yawns = LastYawnCount(answer.on)


\* the prefixes of the history
Prefixes(frames) == { SubSeq(frames, 1, n) : n \in 0..Len(frames) }

\* C40: when the pipeline thread appends frames while the timer thread runs
\* get_current_score on the same ProductivityScoring, every value of the
\* returned ProductivityScore is computed from one and the same prefix of
\* the history, under every interleaving of the append with the query
C40_ScoreFromOnePrefix ==
    (answer # NoAnswer /\ answer.query = "get_current_score" /\ answer.pc = "done") =>
        \E frames \in Prefixes(frames_history) :
            answer.result = CalculateOverallScore(engine, frames)

====
